---- MODULE Spec2Model ----
(***************************************************************************)
(* Model of the scrapingoffers extraction services.                        *)
(*                                                                         *)
(*  - The Flipkart session pool: process_comprehensive_flipkart_links,     *)
(*    driver_worker, ensure_driver_alive, _process_single_flipkart_link    *)
(*    (src/enhanced_flipkart_scraper_comprehensive.py).                    *)
(*  - The Amazon run loop: process_comprehensive_amazon_store_links with   *)
(*    its error classifier, recovery branches, cache and visited log       *)
(*    (src/enhanced_amazon_scraper.py).                                    *)
(*                                                                         *)
(* Each service has its own specification; the variables of the other      *)
(* service stay at their initial value.                                    *)
(***************************************************************************)
EXTENDS Integers, Sequences, FiniteSets, TLC

(***************************************************************************)
(* Bounds of the model.                                                    *)
(***************************************************************************)
\* number of Flipkart store links put on the task queue
NumTasks == 2
\* size of the Flipkart driver pool asked for (max_workers)
MaxWorkers == 2
\* number of Amazon store links in one run
NumLinks == 6
\* number of distinct Amazon URLs
NumUrls == 2
\* number of get_next_proxy calls followed in the ProxyManager specification
MaxProxyCalls == 4
\* largest proxy list fetch_proxies returns in the ProxyManager specification
PoolSize == 3
\* number of flushes followed in the flush specification
MaxFlushes == 3
\* number of tasks followed in the checkpoint specification
MaxCkTasks == 102
\* links of the Flipkart run started through the API
NumRunTasks == 26
\* longest URL string, in characters, and URLs recorded in one history
MaxUrlLen == 2

MaxKeyRecords == 2
\* links of the run in which the tasks of one browser handle are counted
MaxSessionTasks == 102
\* largest offer amount, product price and minimum spend, in units of
\* 1000 rupees
MaxAmount == 4

MaxPrice == 20

MaxMinSpend == 40
\* offers of one page handed to rank_offers, their largest amount, the
\* largest product price, and the minimum spend an offer may state
MaxOffers == 2

MaxRankAmount == 1

MaxRankPrice == 3

RankMinSpend == 2

\* offers get_flipkart_offers may return for one page
MaxStockOffers == 3

\* words of an offer description
MaxWords == 5

\* the planner: Flipkart links of the input file, largest number argument,
\* and the seconds at which a container may start
MaxPlanLinks == 3

MaxPlanArg == 2

NumStartSeconds == 2

\* the mapper: entries of the dataset, store links of one platform in one
\* entry
NumEntries == 2

MaxStoreLinks == 2

\* start requests sent to one service
MaxStartRequests == 3

\* Croma store links of one input file
NumCromaLinks == 2
\* runs of the Croma scraper over the same cache file
MaxCromaRuns == 2
\* number of distinct page snapshots an extraction can produce
NumSnapshots == 2
\* number of runs started in one process
MaxRuns == 2
\* largest proxy list fetch_proxies returns in the Amazon run loop
NumProxies == 1
\* the history counters of the Amazon loop saturate here
CountCap == 2

(***************************************************************************)
(* Program constants.                                                      *)
(***************************************************************************)
\* driver_worker: "if attempts >= 2: raise"
MaxSessionRecoveries == 2

\* process_comprehensive_amazon_store_links: "_persistent_error_count >= 5"
PersistentErrorThreshold == 5
\* ProxyManager.__init__: max_retries_per_proxy = 3
max_retries_per_proxy == 3
\* "if (idx + 1) % 100 == 0": backup and cache flush of the Amazon loop
AmazonBackupEvery == 100
\* "if (idx + 1) % 50 == 0" of the Croma loop
CromaBackupEvery == 50
\* "if len(results) % 25 == 0" of the Flipkart worker
FlipkartSnapshotEvery == 25
\* THREAD_MANAGEMENT_CONFIG['cleanup_interval']
cleanup_interval == 100
\* PROXY_CONFIG['rotation_frequency']
rotation_frequency == 10

Tasks == 1..NumTasks
Workers == 1..MaxWorkers
\* the stop sentinel driver_worker reads as "link_data is None"
None == 0

Min(a, b) == IF a < b THEN a ELSE b

VARIABLES
    \* ---- Flipkart pool: process_comprehensive_flipkart_links ----
    mpc,               \* position of the main thread
    drivers,           \* the workers whose initial driver was created
    enqueued,          \* number of tasks put on the queue so far
    sentinels,         \* number of stop sentinels put so far
    task_queue,        \* Queue(): FIFO of tasks and sentinels
    unfinished_tasks,  \* Queue.unfinished_tasks (put: +1, task_done: -1)
    results,           \* the shared list of stat records
    progress,          \* scraping_status['progress']
    \* ---- Flipkart pool: driver_worker, one per created driver ----
    wpc,               \* position of each worker
    driver,            \* state of the browser handle each worker holds
    link_data,         \* the task each worker is handling (None when idle)
    attempts,          \* driver_worker's local recovery counter
    \* ---- history of the Flipkart pool (not program state) ----
    taken,             \* how many times each task was returned by get()
    executions,        \* how many times each task was executed on a Session
    recreations,       \* teardown-and-recreate cycles per task (saturating)
    faulted,           \* a SessionFault was raised while the task executed
    acked,             \* task_done was called for the task
    handle             \* per worker: the browser handle its local "driver"
                       \* names ("initial": the one in the list drivers,
                       \* "replacement": one created by the worker) and
                       \* whether quit() was called on it

VARIABLES
    \* ---- Amazon run loop: process_comprehensive_amazon_store_links ----
    apc,                \* position: "idle", "loop", "except", "ended"
    run_end,            \* how the last run ended ("none" while it runs)
    runs,               \* number of runs started in this process
    total,              \* len(amazon_store_links) of the run
    idx,                \* index of the link the loop is at
    amazon_url,         \* URL of the link attempted last (0: none yet)
    store_link,         \* snapshot fields of that link (0: left as they were)
    error_message,      \* str(e) of the exception being handled
    visited_urls,       \* the in-memory visited set
    visited_file,       \* visited_urls.txt: lines per URL (saturating)
    url_cache,          \* the in-memory cache: URL -> snapshot (0: no entry)
    cache_file,         \* amazon_url_cache.json on disk
    persistent_error_count, \* the function attribute _persistent_error_count
    proxies,            \* PROXY_MANAGER.proxies
    current_proxy_index,
    proxy_retry_counts,
    \* ---- history of the Amazon loop (not program state) ----
    link_was_skipped,   \* the last link was served by the already-processed branch
    invocations,        \* extractor invocations per URL (saturating)
    consecutive_failures, \* failed links since the last completed one
    recovery            \* what the handler did for the last failure

VARIABLES
    \* ---- history of the ProxyManager (not program state) ----
    proxy_calls,        \* get_next_proxy calls made (bounded)
    returned_proxy,     \* what the last get_next_proxy call returned
    failure_streak,     \* per proxy: failed tests since its last passed test
    evicted_after,      \* per proxy: failure_streak when it was last removed
    rotation_at_call,   \* self.proxies when the loop of the last call began
    tested_in_call      \* the proxies the last call tested

pxVars == <<proxy_calls, returned_proxy, failure_streak, evicted_after,
            rotation_at_call, tested_in_call>>

VARIABLES
    \* ---- files written by the flush routines ----
    disk,               \* per file: "absent", "partial", or the version written
    writer,             \* the flush in progress: routine, step, version
    flushes,            \* flushes started (bounded)
    crashed             \* the process was killed

flVars == <<disk, writer, flushes, crashed>>

VARIABLES
    \* ---- the checkpoint schedule of one run ----
    ck_service,         \* the service running: "amazon", "croma", "flipkart"
    ck_count,           \* idx of the sequential loops, len(results) for Flipkart
    ck_workers,         \* Flipkart: per worker, between append and the % test
    ck_since            \* history: tasks completed since the last checkpoint

ckVars == <<ck_service, ck_count, ck_workers, ck_since>>

\* The Flipkart run started and stopped through the API: the status
\* dictionary, the position of the run thread and of each worker, the task
\* queue, the results list, the owner of each lock, and the history of the
\* stop request and of accesses made without the lock.
VARIABLES
    scraping_status,
    run_thread,
    run_queue,
    run_results,
    worker_pc,
    locks,
    stop_requested,
    started_after_stop,
    unguarded

\* The keys of the Amazon visited log and cache, with URLs as strings.
VARIABLES
    key_file,           \* the lines of visited_urls.txt
    key_visited,        \* the in-memory set visited_urls
    key_cache,          \* the keys of the in-memory url_cache
    key_cache_file,     \* the keys of amazon_url_cache.json
    key_recorded        \* history: the URLs recorded so far, as given

kyVars == <<key_file, key_visited, key_cache, key_cache_file, key_recorded>>

\* The browser handle of one Session and the tasks it has executed.
VARIABLES
    session_service,    \* "none", "croma" or "flipkart"
    session_count,      \* RobustDriverManager.session_count
    session_links,      \* links the run has gone through
    handle_tasks,       \* history: tasks executed on the current handle
    renewals            \* history: handles created after the first

ssVars == <<session_service, session_count, session_links, handle_tasks,
            renewals>>

\* One call of rank_offers and the call before it on the same input.
VARIABLES
    rank_platform,      \* whose analyzer: "amazon", "flipkart", "croma", "jiomart"
    offers_data,        \* the offers of the page, as the extractors read them
    rank_price,         \* product_price
    ranked,             \* what the call returned, or the exception it raised
    ranked_before,      \* what the call before returned on the same input
    rank_calls          \* calls made on this input

rkVars == <<rank_platform, offers_data, rank_price, ranked, ranked_before,
            rank_calls>>

\* _process_single_flipkart_link deciding the stock state of one link.
VARIABLES
    stock_pc,           \* "idle", "evaluated" (inside the retry loop), "done"
    price_stock_info,   \* 'in_stock' of the last extract_flipkart_price_and_stock
    retry_count,        \* retry_count of the loop
    stock_attempts,           \* what each evaluation of this link saw and decided
    page_loads,         \* driver.get calls made for this link
    store_in_stock,     \* store_link_ref['in_stock']
    stock_error         \* stats['error'] is set

stVars == <<stock_pc, price_stock_info, retry_count, stock_attempts, page_loads,
            store_in_stock, stock_error>>

\* One call of extract_bank.
VARIABLES
    bank_platform,      \* whose analyzer: "amazon" or "jiomart"
    bank_description,   \* the description, as the sequence of its words
    extracted_bank      \* the bank returned, "None", or "not called"

bkVars == <<bank_platform, bank_description, extracted_bank>>

\* container_planner.plan and the containers it starts.
VARIABLES
    plan_pc,            \* "idle" or "planned"
    plan_args,          \* the arguments of the planner and the links counted
    plan_obj,           \* the plan returned
    unit_links,         \* per started container: the links it processes
    unit_output         \* per started container: the output file it writes

plVars == <<plan_pc, plan_args, plan_obj, unit_links, unit_output>>

\* URLMapper.process_all_platforms merging the platform files.
VARIABLES
    merge_pc,           \* 0: not started, i: platform i is next, 5: saved
    platform_files,     \* per platform: no file, or its links per entry
    final_data,         \* self.final_data: the entries appended so far
    final_file          \* what was dumped into final.json

mgVars == <<merge_pc, platform_files, final_data, final_file>>

\* The HTTP control surface of one service and the run threads it started.
VARIABLES
    api_service,        \* "none", "amazon" (/start-scraping) or "mapper" (/mapper/run)
    service_running,    \* scraping_status['is_running'] / mapping_status['running']
    service_threads,    \* per start request: "none", "spawned", "running", "finished"
    rejected            \* start requests answered 400 / 409

svVars == <<api_service, service_running, service_threads, rejected>>

\* The Croma scraper's result cache and visited log over several runs.
VARIABLES
    croma_pc,           \* "idle" between runs, "loop" inside the link loop
    croma_runs,         \* runs started
    croma_links,        \* croma_store_links: the URL of each link
    croma_idx,          \* links the loop has gone through
    croma_cache,        \* cache: per URL "none" or the kind of data stored
    croma_cache_file,   \* croma_cache.json
    croma_visited_file, \* visited_urls_croma.txt: lines per URL (saturating)
    croma_store_link,   \* per link: what the run wrote into store_link
    croma_from_cache,   \* per link: the data came from the cache
    extraction_failed   \* URLs whose page fetch or processing raised

cmVars == <<croma_pc, croma_runs, croma_links, croma_idx, croma_cache,
            croma_cache_file, croma_visited_file, croma_store_link,
            croma_from_cache, extraction_failed>>

\* The offer last scored by OfferAnalyzer.calculate_offer_score.
VARIABLES
    offer,              \* the Offer: type, amount, min_spend, is_instant
    product_price,
    final_score         \* the value returned, or the exception raised

scVars == <<offer, product_price, final_score>>

rnVars == <<scraping_status, run_thread, run_queue, run_results, worker_pc,
            locks, stop_requested, started_after_stop, unguarded>>

azProgram == <<apc, run_end, runs, total, idx, amazon_url, store_link,
               error_message, visited_urls, visited_file, url_cache,
               cache_file, persistent_error_count>>
azProxy == <<proxies, current_proxy_index, proxy_retry_counts>>
azHistory == <<link_was_skipped, invocations, consecutive_failures, recovery>>
azVars == <<azProgram, azProxy, azHistory>>

fkVars == <<mpc, drivers, enqueued, sentinels, task_queue, unfinished_tasks,
            results, progress, wpc, driver, link_data, attempts,
            taken, executions, recreations, faulted, acked, handle>>

\* the variables of the specifications other than the Flipkart pool's
nonFkVars == <<azVars, pxVars, flVars, ckVars, rnVars, kyVars, ssVars, scVars, rkVars, stVars, bkVars, plVars, mgVars, svVars, cmVars>>
\* the variables of the specifications other than the Amazon loop's
nonAzVars == <<fkVars, pxVars, flVars, ckVars, rnVars, kyVars, ssVars, scVars, rkVars, stVars, bkVars, plVars, mgVars, svVars, cmVars>>
\* the variables the ProxyManager specification leaves alone
nonPxVars == <<azProgram, azHistory, fkVars, flVars, ckVars, rnVars, kyVars, ssVars, scVars, rkVars, stVars, bkVars, plVars, mgVars, svVars, cmVars>>
\* the variables the flush specification leaves alone
nonFlVars == <<fkVars, azVars, pxVars, ckVars, rnVars, kyVars, ssVars, scVars, rkVars, stVars, bkVars, plVars, mgVars, svVars, cmVars>>
\* the variables the checkpoint specification leaves alone
nonCkVars == <<fkVars, azVars, pxVars, flVars, rnVars, kyVars, ssVars, scVars, rkVars, stVars, bkVars, plVars, mgVars, svVars, cmVars>>

nonRnVars == <<fkVars, azVars, pxVars, flVars, ckVars, kyVars, ssVars, scVars, rkVars, stVars, bkVars, plVars, mgVars, svVars, cmVars>>

nonKyVars == <<fkVars, azVars, pxVars, flVars, ckVars, rnVars, ssVars, scVars, rkVars, stVars, bkVars, plVars, mgVars, svVars, cmVars>>

nonSsVars == <<fkVars, azVars, pxVars, flVars, ckVars, rnVars, kyVars, scVars, rkVars, stVars, bkVars, plVars, mgVars, svVars, cmVars>>

nonScVars == <<fkVars, azVars, pxVars, flVars, ckVars, rnVars, kyVars, ssVars, rkVars, stVars, bkVars, plVars, mgVars, svVars, cmVars>>

nonRkVars == <<fkVars, azVars, pxVars, flVars, ckVars, rnVars, kyVars, ssVars, scVars, stVars, bkVars, plVars, mgVars, svVars, cmVars>>

nonStVars == <<fkVars, azVars, pxVars, flVars, ckVars, rnVars, kyVars, ssVars, scVars, rkVars, bkVars, plVars, mgVars, svVars, cmVars>>

nonBkVars == <<fkVars, azVars, pxVars, flVars, ckVars, rnVars, kyVars, ssVars, scVars, rkVars, stVars, plVars, mgVars, svVars, cmVars>>

nonPlVars == <<fkVars, azVars, pxVars, flVars, ckVars, rnVars, kyVars, ssVars, scVars, rkVars, stVars, bkVars, mgVars, svVars, cmVars>>

nonMgVars == <<fkVars, azVars, pxVars, flVars, ckVars, rnVars, kyVars, ssVars, scVars, rkVars, stVars, bkVars, plVars, svVars, cmVars>>

nonSvVars == <<fkVars, azVars, pxVars, flVars, ckVars, rnVars, kyVars, ssVars, scVars, rkVars, stVars, bkVars, plVars, mgVars, cmVars>>

nonCmVars == <<fkVars, azVars, pxVars, flVars, ckVars, rnVars, kyVars, ssVars, scVars, rkVars, stVars, bkVars, plVars, mgVars, svVars>>

vars == <<fkVars, nonFkVars>>

(***************************************************************************)
(* Amazon: error classifier (detect_error_type, ERROR_DETECTION_CONFIG)    *)
(*                                                                         *)
(* A failure text is a sequence of words; a keyword is a sequence of words *)
(* and matches when it occurs in the text as a run of consecutive words    *)
(* (Python's "keyword in error_str" on the lower-cased text).              *)
(***************************************************************************)
Urls == 1..NumUrls
Snapshots == 1..NumSnapshots

\* str.lower() on the words the failure texts of the model are made of
Lower(word) ==
    CASE word = "Connection" -> "connection"
      [] word = "Message:" -> "message:"
      [] word = "Timeout" -> "timeout"
      [] word = "Too" -> "too"
      [] word = "Resource" -> "resource"
      [] OTHER -> word

LowerText(text) == [i \in 1..Len(text) |-> Lower(text[i])]

\* "keyword in error_str"
KeywordIn(keyword, text) ==
    \E i \in 0..(Len(text) - Len(keyword)) :
        \A j \in 1..Len(keyword) : text[i + j] = keyword[j]

AnyKeywordIn(keywords, text) == \E k \in keywords : KeywordIn(k, text)

chrome_driver_errors ==
    { <<"chrome", "not", "reachable">>, <<"session", "not", "created">>,
      <<"invalid", "session", "id">>, <<"no", "such", "window">>,
      <<"stale", "element", "reference">>, <<"timeout">>,
      <<"connection", "refused">>, <<"too", "many", "open", "files">>,
      <<"errno", "24">>, <<"errno", "111">>, <<"max", "retries", "exceeded">>,
      <<"newconnectionerror">>, <<"connection", "broken">>,
      <<"webdriver", "exception">>, <<"selenium.common.exceptions">>,
      <<"undetected_chromedriver">> }

http_connection_errors ==
    { <<"connection", "refused">>, <<"connection", "aborted">>,
      <<"connection", "reset">>, <<"max", "retries", "exceeded">>,
      <<"newconnectionerror">>, <<"connection", "broken">>, <<"timeout">>,
      <<"unreachable">>, <<"network", "is", "unreachable">> }

file_descriptor_errors ==
    { <<"too", "many", "open", "files">>, <<"errno", "24">>,
      <<"resource", "temporarily", "unavailable">> }

session_errors ==
    { <<"session", "not", "created">>, <<"invalid", "session", "id">>,
      <<"no", "such", "window">>, <<"stale", "element", "reference">>,
      <<"chrome", "not", "reachable">> }

max_retry_errors ==
    { <<"max", "retries", "exceeded">>, <<"retry">>, <<"timeout">>,
      <<"connection">> }

detect_error_type(message) ==
    LET error_str == LowerText(message) IN
    [ is_chrome_driver_error |-> AnyKeywordIn(chrome_driver_errors, error_str),
      is_http_connection_error |-> AnyKeywordIn(http_connection_errors, error_str),
      is_file_descriptor_error |-> AnyKeywordIn(file_descriptor_errors, error_str),
      is_session_error |-> AnyKeywordIn(session_errors, error_str),
      is_max_retry_error |-> AnyKeywordIn(max_retry_errors, error_str),
      requires_driver_restart |->
          AnyKeywordIn(chrome_driver_errors \cup session_errors, error_str),
      requires_resource_cleanup |->
          AnyKeywordIn(file_descriptor_errors, error_str) ]

\* The failure texts a task can raise in the model.
ErrorMessages ==
    { <<"Message:", "invalid", "session", "id">>,
      <<"Connection", "refused">>,
      <<"Connection", "reset", "by", "peer">>,
      <<"Too", "many", "open", "files">>,
      <<"Resource", "temporarily", "unavailable">>,
      <<"Timeout">>,
      <<"list", "index", "out", "of", "range">> }

NoMessage == <<>>

\* PROXY_CONFIG['enabled']
ProxyEnabled == TRUE

(***************************************************************************)
(* Amazon: ProxyManager                                                    *)
(***************************************************************************)
ProxyIds == 1..PoolSize

\* what fetch_proxies can leave in self.proxies: the API's list (possibly
\* empty) or the one fallback proxy
FetchResults == { [i \in 1..n |-> i] : n \in 0..NumProxies }

\* the outcomes of the successive test_proxy_connectivity calls of one
\* get_next_proxy call
TestResults == [1..(2 * NumProxies) -> BOOLEAN]

Remove(seq, p) == SelectSeq(seq, LAMBDA q : q # p)

\* ProxyManager.mark_proxy_failed (294-306) on the manager state pm. The
\* count is only compared with max_retries_per_proxy and saturates there.
mark_proxy_failed(pm, p) ==
    LET c == Min(pm.counts[p] + 1, max_retries_per_proxy)
        counts == [pm.counts EXCEPT ![p] = c]
    IN  IF c >= max_retries_per_proxy
        THEN LET ps == Remove(pm.proxies, p) IN
             [ proxies |-> ps,
               index |-> IF ps # <<>> THEN pm.index % Len(ps) ELSE 0,
               counts |-> counts ]
        ELSE [pm EXCEPT !.counts = counts]

\* The while loop of get_next_proxy (266-292).
RECURSIVE ProxyLoop(_, _, _, _)
ProxyLoop(pm, tests, n, max_attempts) ==
    IF n >= max_attempts
    THEN [pm |-> pm, proxy |-> None]
    ELSE LET p == pm.proxies[pm.index + 1] IN
         IF tests[n + 1]
         THEN [ pm |-> [pm EXCEPT !.index = (pm.index + 1) % Len(pm.proxies)],
                proxy |-> p ]
         ELSE LET failed == mark_proxy_failed(pm, p) IN
              IF failed.proxies = <<>>
              THEN [pm |-> failed, proxy |-> None]
              ELSE ProxyLoop(failed, tests, n + 1, max_attempts)

\* The proxies the while loop of get_next_proxy (266-292) hands to
\* test_proxy_connectivity.
RECURSIVE TestedInLoop(_, _, _, _)
TestedInLoop(pm, tests, n, max_attempts) ==
    IF n >= max_attempts
    THEN {}
    ELSE LET p == pm.proxies[pm.index + 1] IN
         IF tests[n + 1]
         THEN {p}
         ELSE LET failed == mark_proxy_failed(pm, p) IN
              IF failed.proxies = <<>>
              THEN {p}
              ELSE {p} \cup TestedInLoop(failed, tests, n + 1, max_attempts)

\* ProxyManager.get_next_proxy (254-292).
get_next_proxy(pm, fetched, tests) ==
    LET have == IF pm.proxies = <<>> THEN [pm EXCEPT !.proxies = fetched] ELSE pm
    IN  IF have.proxies = <<>>
        THEN [pm |-> have, proxy |-> None]
        ELSE ProxyLoop(have, tests, 0, 2 * Len(have.proxies))

ProxyState == [ proxies |-> proxies, index |-> current_proxy_index,
                counts |-> proxy_retry_counts ]

(***************************************************************************)
(* Amazon: process_comprehensive_amazon_store_links                        *)
(***************************************************************************)
NoRecovery ==
    [ idx |-> 0, message |-> NoMessage, action |-> "none",
      cleaned |-> FALSE, waited |-> FALSE, rotated |-> FALSE,
      retried |-> FALSE ]

AzInit ==
    /\ apc = "idle"
    /\ run_end = "none"
    /\ runs = 0
    /\ total = 0
    /\ idx = 0
    /\ amazon_url = 0
    /\ store_link = 0
    /\ error_message = NoMessage
    /\ visited_urls = {}
    /\ visited_file = [u \in Urls |-> 0]
    /\ url_cache = [u \in Urls |-> 0]
    /\ cache_file = [u \in Urls |-> 0]
    /\ persistent_error_count = 0
    /\ proxies = <<>>
    /\ current_proxy_index = 0
    /\ proxy_retry_counts = [p \in ProxyIds |-> 0]
    /\ link_was_skipped = FALSE
    /\ invocations = [u \in Urls |-> 0]
    /\ consecutive_failures = 0
    /\ recovery = NoRecovery

Count(n) == Min(n + 1, CountCap)

\* append_visited_url (733-742): one more line for the URL
append_visited_url(file, u) == [file EXCEPT ![u] = Count(@)]

\* load_visited_urls (716-731): the set of the file's lines
load_visited_urls(file) == {u \in Urls : file[u] > 0}

\* "amazon_url in visited_urls or amazon_url in url_cache" (2455)
AlreadyProcessed(u) == u \in visited_urls \/ url_cache[u] # 0

\* run_scraper_process (3186-3217) up to the loop of
\* process_comprehensive_amazon_store_links (2396-2436): load the visited
\* log and the cache from disk and start at the first link. The function
\* attribute _persistent_error_count is not touched.
StartRun ==
    /\ apc \in {"idle", "ended"}
    /\ runs < MaxRuns
    /\ runs' = runs + 1
    /\ total' = NumLinks
    /\ apc' = "loop"
    /\ run_end' = "none"
    /\ idx' = 0
    /\ amazon_url' = 0
    /\ store_link' = 0
    /\ error_message' = NoMessage
    /\ visited_urls' = load_visited_urls(visited_file)
    /\ url_cache' = cache_file
    /\ link_was_skipped' = FALSE
    /\ consecutive_failures' = 0
    /\ recovery' = NoRecovery
    /\ UNCHANGED <<visited_file, cache_file, persistent_error_count, azProxy,
                   invocations, nonAzVars>>

\* Lines 2454-2467: the link's URL was processed before: apply the cached
\* snapshot if there is one, record the visit, go to the next link.
ReuseProcessed ==
    /\ apc = "loop"
    /\ idx < total
    /\ \E u \in Urls :
        /\ AlreadyProcessed(u)
        /\ amazon_url' = u
        /\ store_link' = url_cache[u]
        /\ visited_file' = append_visited_url(visited_file, u)
        /\ visited_urls' = visited_urls \cup {u}
    /\ idx' = idx + 1
    /\ link_was_skipped' = TRUE
    /\ recovery' = NoRecovery
    /\ UNCHANGED <<apc, run_end, runs, total, error_message, url_cache,
                   cache_file, persistent_error_count, azProxy, invocations,
                   consecutive_failures, nonAzVars>>

\* Lines 2470-2490: a fresh driver for every link but the first, through
\* the next proxy on every rotation_frequency-th link.
NewSessionForLink ==
    IF ProxyEnabled /\ idx > 0 /\ idx % rotation_frequency = 0
    THEN \E fetched \in (IF proxies = <<>> THEN FetchResults ELSE {<<>>}),
            tests \in TestResults :
            LET got == get_next_proxy(ProxyState, fetched, tests) IN
            /\ proxies' = got.pm.proxies
            /\ current_proxy_index' = got.pm.index
            /\ proxy_retry_counts' = got.pm.counts
    ELSE UNCHANGED azProxy

\* Lines 2469-2678 without an exception: extract, rank, record the visit,
\* cache the snapshot, flush every AmazonBackupEvery links.
ScrapeLink ==
    /\ apc = "loop"
    /\ idx < total
    /\ \E u \in Urls, s \in Snapshots :
        /\ ~AlreadyProcessed(u)
        /\ amazon_url' = u
        /\ store_link' = s
        /\ visited_file' = append_visited_url(visited_file, u)
        /\ visited_urls' = visited_urls \cup {u}
        /\ url_cache' = [url_cache EXCEPT ![u] = s]
        /\ invocations' = [invocations EXCEPT ![u] = Count(@)]
        /\ cache_file' = IF (idx + 1) % AmazonBackupEvery = 0
                         THEN [url_cache EXCEPT ![u] = s]
                         ELSE cache_file
    /\ idx' = idx + 1
    /\ link_was_skipped' = FALSE
    /\ consecutive_failures' = 0
    /\ recovery' = NoRecovery
    /\ NewSessionForLink
    /\ UNCHANGED <<apc, run_end, runs, total, error_message,
                   persistent_error_count, nonAzVars>>

\* Lines 2469-2681 with an exception: control reaches "except Exception as e".
ScrapeFails ==
    /\ apc = "loop"
    /\ idx < total
    /\ \E u \in Urls, m \in ErrorMessages :
        /\ ~AlreadyProcessed(u)
        /\ amazon_url' = u
        /\ error_message' = m
    /\ store_link' = 0
    /\ apc' = "except"
    /\ link_was_skipped' = FALSE
    /\ consecutive_failures' = Min(consecutive_failures + 1, PersistentErrorThreshold)
    /\ NewSessionForLink
    /\ UNCHANGED <<run_end, runs, total, idx, visited_urls, visited_file,
                   url_cache, cache_file, persistent_error_count,
                   invocations, recovery, nonAzVars>>

(***************************************************************************)
(* Amazon: the handler "except Exception as e" of the loop (2680-2938 and  *)
(* 3122-3128). Lines 2940-3120 repeat the proxy branch a second time at an *)
(* indentation Python rejects; the model follows the first copy.           *)
(***************************************************************************)
\* detect_error_type on each failure text of the model, computed once
error_types == [m \in ErrorMessages |-> detect_error_type(m)]

\* "error_info = detect_error_type(str(e))" (2685)
error_info == error_types[error_message]

\* Lines 2691-2696: the count after this failure.
NextErrorCount ==
    IF \/ error_info.is_chrome_driver_error
       \/ error_info.is_http_connection_error
       \/ error_info.is_file_descriptor_error
       \/ error_info.is_session_error
    THEN persistent_error_count + 1
    ELSE 0

Handled(action, cleaned, waited, rotated, retried) ==
    [ idx |-> idx, message |-> error_message, action |-> action,
      cleaned |-> cleaned, waited |-> waited, rotated |-> rotated,
      retried |-> retried ]

\* The index the for loop is at after "continue" in the handler.
NextLinkIndex(i) == i + 1

\* Lines 2934-2938: "if (idx + 1) % cleanup_interval == 0: save_url_cache".
PeriodicCacheSave ==
    cache_file' = IF (idx + 1) % cleanup_interval = 0 THEN url_cache ELSE cache_file

\* The handler leaves for the next iteration of the for loop.
ContinueLoop ==
    /\ idx' = NextLinkIndex(idx)
    /\ apc' = "loop"
    /\ error_message' = NoMessage
    /\ UNCHANGED <<run_end, runs, total>>

\* An exception leaves the handler: the "finally" of 3133-3143 writes the
\* final output and the cache, and the exception reaches run_scraper_process.
AbortRun ==
    /\ apc' = "ended"
    /\ run_end' = "aborted"
    /\ cache_file' = url_cache
    /\ error_message' = NoMessage
    /\ UNCHANGED <<runs, total, idx>>

\* Lines 2698-2702 with save_progress_and_pause (608-622) and the "finally"
\* of 3133-3143: write the progress file and the cache, leave the function.
HandlePause ==
    /\ apc = "except"
    /\ NextErrorCount >= PersistentErrorThreshold
    /\ persistent_error_count' = NextErrorCount
    /\ cache_file' = url_cache
    /\ apc' = "ended"
    /\ run_end' = "paused"
    /\ error_message' = NoMessage
    /\ recovery' = Handled("pause", FALSE, FALSE, FALSE, FALSE)
    /\ UNCHANGED <<runs, total, idx, amazon_url, store_link, visited_urls,
                   visited_file, url_cache, azProxy, link_was_skipped,
                   invocations, consecutive_failures, nonAzVars>>

\* Lines 2705-2713 with restart_chrome_driver (433-472): quit, clean up,
\* sleep, create. On success "continue"; on failure fall through to the
\* periodic work and the "continue" of line 3128.
HandleRestart ==
    /\ apc = "except"
    /\ NextErrorCount < PersistentErrorThreshold
    /\ error_info.requires_driver_restart
    /\ persistent_error_count' = NextErrorCount
    /\ \E restarted \in BOOLEAN :
        /\ recovery' = Handled(IF restarted THEN "restart" ELSE "restart_failed",
                               TRUE, TRUE, FALSE, FALSE)
        /\ IF restarted THEN cache_file' = cache_file ELSE PeriodicCacheSave
    /\ ContinueLoop
    /\ UNCHANGED <<amazon_url, store_link, visited_urls, visited_file,
                   url_cache, azProxy, link_was_skipped, invocations,
                   consecutive_failures, nonAzVars>>

\* Lines 2715-2718: cleanup_resources(), sleep(5), then the periodic work
\* and the "continue" of line 3128.
HandleCleanup ==
    /\ apc = "except"
    /\ NextErrorCount < PersistentErrorThreshold
    /\ ~error_info.requires_driver_restart
    /\ error_info.requires_resource_cleanup
    /\ persistent_error_count' = NextErrorCount
    /\ recovery' = Handled("cleanup", TRUE, TRUE, FALSE, FALSE)
    /\ PeriodicCacheSave
    /\ ContinueLoop
    /\ UNCHANGED <<amazon_url, store_link, visited_urls, visited_file,
                   url_cache, azProxy, link_was_skipped, invocations,
                   consecutive_failures, nonAzVars>>

\* Lines 2720-2911: proxy rotation. With a proxy the link is processed again
\* inside the handler: on success the visit is recorded (the cache is not
\* updated) and the loop continues; on failure mark_proxy_failed is called
\* with the formatted proxy, which has no 'host' key, so it raises and the
\* "except Exception as proxy_error" of 2908 creates a plain driver. Without
\* a proxy a plain driver is created and the link is not processed again.
HandleProxy ==
    /\ apc = "except"
    /\ NextErrorCount < PersistentErrorThreshold
    /\ ~error_info.requires_driver_restart
    /\ ~error_info.requires_resource_cleanup
    /\ error_info.is_http_connection_error /\ ProxyEnabled
    /\ persistent_error_count' = NextErrorCount
    /\ \E fetched \in (IF proxies = <<>> THEN FetchResults ELSE {<<>>}),
          tests \in TestResults :
        LET got == get_next_proxy(ProxyState, fetched, tests) IN
        /\ proxies' = got.pm.proxies
        /\ current_proxy_index' = got.pm.index
        /\ proxy_retry_counts' = got.pm.counts
        /\ IF got.proxy # None
           THEN \/ \E s \in Snapshots :
                    \* the retry with the proxy succeeds
                    /\ store_link' = s
                    /\ visited_file' = append_visited_url(visited_file, amazon_url)
                    /\ visited_urls' = visited_urls \cup {amazon_url}
                    /\ invocations' = [invocations EXCEPT ![amazon_url] = Count(@)]
                    /\ consecutive_failures' = 0
                    /\ recovery' = Handled("proxy_retry", FALSE, TRUE, TRUE, TRUE)
                    /\ cache_file' = cache_file
                    /\ ContinueLoop
                \/ \E retried \in BOOLEAN, created \in BOOLEAN :
                    \* the driver with the proxy cannot be created (retried
                    \* FALSE) or the retry fails (retried TRUE); then a
                    \* plain driver is created, or that fails too
                    /\ recovery' = Handled("proxy_failed", FALSE, retried, TRUE, retried)
                    /\ UNCHANGED <<store_link, visited_file, visited_urls,
                                   invocations, consecutive_failures>>
                    /\ IF created
                       THEN PeriodicCacheSave /\ ContinueLoop
                       ELSE AbortRun
           ELSE \E created \in BOOLEAN :
                    /\ recovery' = Handled("no_proxy", FALSE, FALSE, FALSE, FALSE)
                    /\ UNCHANGED <<store_link, visited_file, visited_urls,
                                   invocations, consecutive_failures>>
                    /\ IF created
                       THEN PeriodicCacheSave /\ ContinueLoop
                       ELSE AbortRun
    /\ UNCHANGED <<amazon_url, url_cache, link_was_skipped, nonAzVars>>

\* No branch of 2705-2911 applies: the periodic work and the "continue" of
\* line 3128.
HandleOther ==
    /\ apc = "except"
    /\ NextErrorCount < PersistentErrorThreshold
    /\ ~error_info.requires_driver_restart
    /\ ~error_info.requires_resource_cleanup
    /\ ~(error_info.is_http_connection_error /\ ProxyEnabled)
    /\ persistent_error_count' = NextErrorCount
    /\ recovery' = Handled("none", FALSE, FALSE, FALSE, FALSE)
    /\ PeriodicCacheSave
    /\ ContinueLoop
    /\ UNCHANGED <<amazon_url, store_link, visited_urls, visited_file,
                   url_cache, azProxy, link_was_skipped, invocations,
                   consecutive_failures, nonAzVars>>

\* The loop is exhausted: the "finally" of 3133-3143 writes the final output
\* and the cache; run_scraper_process marks the run completed.
FinishRun ==
    /\ apc = "loop"
    /\ idx = total
    /\ apc' = "ended"
    /\ run_end' = "completed"
    /\ cache_file' = url_cache
    /\ UNCHANGED <<runs, total, idx, amazon_url, store_link, error_message,
                   visited_urls, visited_file, url_cache,
                   persistent_error_count, azProxy, azHistory, nonAzVars>>

\* The status dictionary of the Amazon API as run_scraper_process (3186-3237)
\* leaves it: reset when the run starts, "Mark as completed" when
\* process_comprehensive_amazon_store_links returns, whichever way it
\* returned, "Mark as error" when an exception leaves it.
AmazonScrapingStatus ==
    CASE apc = "idle" ->
             [is_running |-> FALSE, completed |-> FALSE, error |-> "None"]
      [] run_end = "none" ->
             [is_running |-> TRUE, completed |-> FALSE, error |-> "None"]
      [] run_end \in {"completed", "paused"} ->
             [is_running |-> FALSE, completed |-> TRUE, error |-> "None"]
      [] OTHER ->
             [is_running |-> FALSE, completed |-> FALSE, error |-> "str(e)"]

AzNext ==
    \/ StartRun
    \/ ReuseProcessed
    \/ ScrapeLink
    \/ ScrapeFails
    \/ HandlePause
    \/ HandleRestart
    \/ HandleCleanup
    \/ HandleProxy
    \/ HandleOther
    \/ FinishRun


(***************************************************************************)
(* Flipkart session pool                                                   *)
(***************************************************************************)
FkInit ==
    /\ mpc = "prime"
    /\ drivers = {}
    /\ enqueued = 0
    /\ sentinels = 0
    /\ task_queue = <<>>
    /\ unfinished_tasks = 0
    /\ results = <<>>
    /\ progress = 0
    /\ wpc = [w \in Workers |-> "idle"]
    /\ driver = [w \in Workers |-> "none"]
    /\ link_data = [w \in Workers |-> None]
    /\ attempts = [w \in Workers |-> 0]
    /\ taken = [t \in Tasks |-> 0]
    /\ executions = [t \in Tasks |-> 0]
    /\ recreations = [t \in Tasks |-> 0]
    /\ faulted = [t \in Tasks |-> FALSE]
    /\ acked = [t \in Tasks |-> FALSE]
    /\ handle = [w \in Workers |-> "none"]

fkHistory == <<taken, executions, recreations, faulted, acked, handle>>

\* driver.quit() on the handle a worker holds
Quit(h) ==
    CASE h = "initial" -> "initial_quit"
      [] h = "replacement" -> "replacement_quit"
      [] OTHER -> h

\* Queue.put: append at the tail and count the item as unfinished.
QueuePut(q, item) == Append(q, item)

\* Queue.get removes the head it returns: the queue left behind.
QueueGet_NoRemove(q) == q
QueueGet(q) == Tail(q)

\* Lines 1697-1713: create the pool (each creation may fail and is skipped),
\* raise RuntimeError when no driver could be created, else start one
\* worker thread per driver.
PrimeDrivers ==
    /\ mpc = "prime"
    /\ \E k \in 0..MaxWorkers :
        LET D == 1..k IN
        /\ drivers' = D
        /\ mpc' = IF D = {} THEN "failed" ELSE "enqueue"
        /\ wpc' = [w \in Workers |-> IF w \in D THEN "get" ELSE "idle"]
        /\ driver' = [w \in Workers |-> IF w \in D THEN "alive" ELSE "none"]
        /\ handle' = [w \in Workers |-> IF w \in D THEN "initial" ELSE "none"]
    /\ UNCHANGED <<enqueued, sentinels, task_queue, unfinished_tasks, results,
                   progress, link_data, attempts, taken, executions,
                   recreations, faulted, acked, nonFkVars>>

\* Lines 1715-1717: task_queue.put(link_data), one link at a time.
Enqueue ==
    /\ mpc = "enqueue"
    /\ enqueued < NumTasks
    /\ task_queue' = QueuePut(task_queue, enqueued + 1)
    /\ unfinished_tasks' = unfinished_tasks + 1
    /\ enqueued' = enqueued + 1
    /\ mpc' = IF enqueued + 1 = NumTasks THEN "join" ELSE "enqueue"
    /\ UNCHANGED <<drivers, sentinels, results, progress, wpc, driver,
                   link_data, attempts, fkHistory, nonFkVars>>

\* join() returning at once, without waiting for the count to reach zero
Join_WithoutWaiting ==
    /\ mpc = "join"
    /\ mpc' = "stop"
    /\ UNCHANGED <<drivers, enqueued, sentinels, task_queue, unfinished_tasks,
                   results, progress, wpc, driver, link_data, attempts,
                   fkHistory, nonFkVars>>

\* Line 1720: task_queue.join() returns once every put item was task_done'd.
Join ==
    /\ mpc = "join"
    /\ unfinished_tasks = 0
    /\ mpc' = "stop"
    /\ UNCHANGED <<drivers, enqueued, sentinels, task_queue, unfinished_tasks,
                   results, progress, wpc, driver, link_data, attempts,
                   fkHistory, nonFkVars>>

\* Lines 1722-1724: one None per driver.
PutSentinel ==
    /\ mpc = "stop"
    /\ sentinels < Cardinality(drivers)
    /\ task_queue' = QueuePut(task_queue, None)
    /\ unfinished_tasks' = unfinished_tasks + 1
    /\ sentinels' = sentinels + 1
    /\ mpc' = IF sentinels + 1 = Cardinality(drivers) THEN "cleanup" ELSE "stop"
    /\ UNCHANGED <<drivers, enqueued, results, progress, wpc, driver,
                   link_data, attempts, fkHistory, nonFkVars>>

\* Lines 1725-1752: join the threads with a timeout, count the results,
\* quit the pool's drivers, write the final output.
Cleanup ==
    /\ mpc = "cleanup"
    /\ mpc' = "done"
    /\ handle' = [w \in Workers |->
                     IF handle[w] = "initial" THEN Quit(handle[w]) ELSE handle[w]]
    /\ UNCHANGED <<drivers, enqueued, sentinels, task_queue, unfinished_tasks,
                   results, progress, wpc, driver, link_data, attempts,
                   taken, executions, recreations, faulted, acked, nonFkVars>>

\* Lines 1544-1550: task_queue.get(); on the sentinel task_done() and leave,
\* else start the per-task recovery loop with attempts = 0.
Get(w) ==
    /\ wpc[w] = "get"
    /\ task_queue # <<>>
    /\ LET item == Head(task_queue) IN
        /\ task_queue' = QueueGet(task_queue)
        /\ IF item = None
           THEN /\ unfinished_tasks' = unfinished_tasks - 1
                /\ wpc' = [wpc EXCEPT ![w] = "exit"]
                /\ UNCHANGED <<link_data, attempts, taken>>
           ELSE /\ link_data' = [link_data EXCEPT ![w] = item]
                /\ attempts' = [attempts EXCEPT ![w] = 0]
                /\ taken' = [taken EXCEPT ![item] = @ + 1]
                /\ wpc' = [wpc EXCEPT ![w] = "ensure"]
                /\ UNCHANGED unfinished_tasks
    /\ UNCHANGED <<mpc, drivers, enqueued, sentinels, results, progress,
                   driver, executions, recreations, faulted, acked, handle,
                   nonFkVars>>

\* The history counter of teardown-and-recreate cycles is only compared with
\* MaxSessionRecoveries and saturates right above it.
CyclesCap == MaxSessionRecoveries + 1

Cycle(n) == Min(n + 1, CyclesCap)

\* Line 1553 with ensure_driver_alive (1450-1465): a live handle is kept;
\* an invalid one is quit and replaced. A failed replacement is re-raised:
\* as a WebDriverException it reaches the handler of line 1557, as any other
\* exception it reaches "except Exception" of line 1586.
EnsureDriverAlive(w) ==
    /\ wpc[w] = "ensure"
    /\ LET t == link_data[w] IN
        \/ /\ driver[w] = "alive"
           /\ wpc' = [wpc EXCEPT ![w] = "process"]
           /\ UNCHANGED <<driver, recreations, handle>>
        \/ /\ \E created \in {"ok", "webdriver_exception", "other_exception"} :
                /\ driver' = [driver EXCEPT ![w] =
                                IF created = "ok" THEN "alive" ELSE "dead"]
                /\ handle' = [handle EXCEPT ![w] =
                                IF created = "ok" THEN "replacement" ELSE Quit(@)]
                /\ wpc' = [wpc EXCEPT ![w] =
                                CASE created = "ok" -> "process"
                                  [] created = "webdriver_exception" -> "recover"
                                  [] OTHER -> "ack"]
           /\ recreations' = [recreations EXCEPT ![t] = Cycle(@)]
    /\ UNCHANGED <<mpc, drivers, enqueued, sentinels, task_queue,
                   unfinished_tasks, results, progress, link_data, attempts,
                   taken, executions, faulted, acked, nonFkVars>>

\* What _process_single_flipkart_link returns for an outcome of the page
\* work: every exception, a SessionFault included, is caught by its
\* "except Exception" (1536-1539) and returned in stats['error'].
ProcessSingleLink(t, outcome) == [url |-> t, error |-> outcome]

\* Lines 1554-1556: run the task on the Session, append the stat, break.
Process(w) ==
    /\ wpc[w] = "process"
    /\ LET t == link_data[w] IN
        \E outcome \in {"none", "session_fault", "other_error"} :
            /\ results' = Append(results, ProcessSingleLink(t, outcome))
            /\ executions' = [executions EXCEPT ![t] = @ + 1]
            /\ faulted' = [faulted EXCEPT ![t] = @ \/ outcome = "session_fault"]
            /\ \E after \in {"alive", "dead"} :
                /\ (outcome # "session_fault") => after = "alive"
                /\ driver' = [driver EXCEPT ![w] = after]
    /\ wpc' = [wpc EXCEPT ![w] = "status"]
    /\ UNCHANGED <<mpc, drivers, enqueued, sentinels, task_queue,
                   unfinished_tasks, progress, link_data, attempts,
                   taken, recreations, acked, handle, nonFkVars>>

\* Lines 1557-1571: the handler of a SessionFault that reached the worker.
Recover(w) ==
    /\ wpc[w] = "recover"
    /\ LET t == link_data[w]
           n == Min(attempts[w] + 1, MaxSessionRecoveries) IN
        /\ attempts' = [attempts EXCEPT ![w] = n]
        /\ recreations' = [recreations EXCEPT ![t] = Cycle(@)]
        /\ \E created \in BOOLEAN :
            IF created
            THEN /\ driver' = [driver EXCEPT ![w] = "alive"]
                 /\ handle' = [handle EXCEPT ![w] = "replacement"]
                 /\ wpc' = [wpc EXCEPT ![w] = "ensure"]
            ELSE /\ driver' = [driver EXCEPT ![w] = "dead"]
                 /\ handle' = [handle EXCEPT ![w] = Quit(@)]
                 /\ wpc' = [wpc EXCEPT ![w] =
                        IF n >= MaxSessionRecoveries THEN "ack" ELSE "ensure"]
    /\ UNCHANGED <<mpc, drivers, enqueued, sentinels, task_queue,
                   unfinished_tasks, results, progress, link_data,
                   taken, executions, faulted, acked, nonFkVars>>

\* Lines 1572-1585: publish the progress under STATUS_LOCK.
UpdateStatus(w) ==
    /\ wpc[w] = "status"
    /\ progress' = Len(results)
    /\ wpc' = [wpc EXCEPT ![w] = "ack"]
    /\ UNCHANGED <<mpc, drivers, enqueued, sentinels, task_queue,
                   unfinished_tasks, results, driver, link_data, attempts,
                   fkHistory, nonFkVars>>

\* Lines 1586-1589: "finally: task_queue.task_done()", then the next get().
\* The locals link_data and attempts of the finished task are dead.
TaskDone(w) ==
    /\ wpc[w] = "ack"
    /\ unfinished_tasks' = unfinished_tasks - 1
    /\ acked' = [acked EXCEPT ![link_data[w]] = TRUE]
    /\ link_data' = [link_data EXCEPT ![w] = None]
    /\ attempts' = [attempts EXCEPT ![w] = 0]
    /\ wpc' = [wpc EXCEPT ![w] = "get"]
    /\ UNCHANGED <<mpc, drivers, enqueued, sentinels, task_queue, results,
                   progress, driver, taken, executions,
                   recreations, faulted, handle, nonFkVars>>

MainStep == PrimeDrivers \/ Enqueue \/ Join \/ PutSentinel \/ Cleanup

WorkerStep(w) ==
    \/ Get(w)
    \/ EnsureDriverAlive(w)
    \/ Process(w)
    \/ Recover(w)
    \/ UpdateStatus(w)
    \/ TaskDone(w)

FkNext ==
    \/ PrimeDrivers
    \/ Enqueue
    \/ Join
    \/ PutSentinel
    \/ Cleanup
    \/ \E w \in Workers : Get(w)
    \/ \E w \in Workers : EnsureDriverAlive(w)
    \/ \E w \in Workers : Process(w)
    \/ \E w \in Workers : Recover(w)
    \/ \E w \in Workers : UpdateStatus(w)
    \/ \E w \in Workers : TaskDone(w)

(***************************************************************************)
(* ProxyManager on its own: successive PROXY_MANAGER.get_next_proxy()      *)
(* calls, from either call site (2484, 2731).                              *)
(***************************************************************************)
PxInit ==
    /\ proxy_calls = 0
    /\ returned_proxy = None
    /\ failure_streak = [p \in ProxyIds |-> 0]
    /\ evicted_after = [p \in ProxyIds |-> 0]
    /\ rotation_at_call = <<>>
    /\ tested_in_call = {}

\* fetch_proxies and test_proxy_connectivity with a pool of up to PoolSize
PoolFetchResults == { [i \in 1..n |-> i] : n \in 0..PoolSize }
PoolTestResults == [1..(2 * PoolSize) -> BOOLEAN]

InRotation(ps, p) == \E i \in 1..Len(ps) : ps[i] = p

\* One call of get_next_proxy (254-292). Within a call the tests of one
\* proxy are consecutive and a passed test ends the call, so the history
\* of the call follows from the manager state before and after it.
GetNextProxy ==
    /\ proxy_calls < MaxProxyCalls
    /\ proxy_calls' = proxy_calls + 1
    /\ \E fetched \in (IF proxies = <<>> THEN PoolFetchResults ELSE {<<>>}),
          tests \in PoolTestResults :
        LET got == get_next_proxy(ProxyState, fetched, tests)
            had == IF proxies = <<>> THEN fetched ELSE proxies
            Removed(p) == InRotation(had, p) /\ ~InRotation(got.pm.proxies, p)
            counted(p) == got.pm.counts[p] - proxy_retry_counts[p]
            \* a proxy whose count already stands at the limit is removed
            \* by its first failed test
            failures(p) == IF Removed(p) /\ counted(p) = 0 THEN 1 ELSE counted(p)
            streak(p) == Min(failure_streak[p] + failures(p), max_retries_per_proxy)
        IN  /\ proxies' = got.pm.proxies
            /\ current_proxy_index' = got.pm.index
            /\ proxy_retry_counts' = got.pm.counts
            /\ returned_proxy' = got.proxy
            /\ failure_streak' = [p \in ProxyIds |->
                    IF got.proxy = p THEN 0 ELSE streak(p)]
            /\ evicted_after' = [p \in ProxyIds |->
                    IF Removed(p) THEN streak(p) ELSE evicted_after[p]]
            /\ rotation_at_call' = had
            /\ tested_in_call' =
                    IF had = <<>> THEN {}
                    ELSE TestedInLoop([ProxyState EXCEPT !.proxies = had],
                                      tests, 0, 2 * Len(had))
    /\ UNCHANGED nonPxVars

PxNext == GetNextProxy


(***************************************************************************)
(* Flush routines: how each service writes its cache and its checkpoints.  *)
(*   save_url_cache (Amazon, 571-582): write "<file>.tmp", os.replace.     *)
(*   save_cache (Croma, 59-66): open(cache_file, 'w') and json.dump.       *)
(*   the snapshot of driver_worker (Flipkart, 1579-1585): open a new       *)
(*   progress file and json.dump.                                          *)
(* open(..., 'w') creates or truncates the file; until json.dump has       *)
(* finished and the file is closed its content is partial.                 *)
(***************************************************************************)
Files == {"amazon_cache", "amazon_cache_tmp", "croma_cache", "flipkart_progress"}
Routines == {"save_url_cache", "save_cache", "snapshot"}
Idle == [routine |-> "none", step |-> "none", version |-> 0]

\* the file a routine opens for writing
Target(routine) ==
    CASE routine = "save_url_cache" -> "amazon_cache_tmp"
      [] routine = "save_cache" -> "croma_cache"
      [] OTHER -> "flipkart_progress"

FlInit ==
    /\ disk = [f \in Files |-> "absent"]
    /\ writer = Idle
    /\ flushes = 0
    /\ crashed = FALSE

\* A flush routine is called.
BeginFlush ==
    /\ ~crashed /\ writer = Idle
    /\ flushes < MaxFlushes
    /\ flushes' = flushes + 1
    /\ \E r \in Routines :
        writer' = [routine |-> r, step |-> "open", version |-> flushes + 1]
    /\ UNCHANGED <<disk, crashed, nonFlVars>>

\* "with open(file, 'w') as f": the file exists and is empty.
OpenForWrite ==
    /\ ~crashed /\ writer.step = "open"
    /\ disk' = [disk EXCEPT ![Target(writer.routine)] = "partial"]
    /\ writer' = [writer EXCEPT !.step = "dump"]
    /\ UNCHANGED <<flushes, crashed, nonFlVars>>

\* json.dump returns and the with block closes the file.
Dump ==
    /\ ~crashed /\ writer.step = "dump"
    /\ disk' = [disk EXCEPT ![Target(writer.routine)] = writer.version]
    /\ writer' = IF writer.routine = "save_url_cache"
                 THEN [writer EXCEPT !.step = "replace"]
                 ELSE Idle
    /\ UNCHANGED <<flushes, crashed, nonFlVars>>

\* os.replace(tmp_file, cache_file) (579).
Replace ==
    /\ ~crashed /\ writer.step = "replace"
    /\ disk' = [disk EXCEPT !["amazon_cache"] = disk["amazon_cache_tmp"],
                            !["amazon_cache_tmp"] = "absent"]
    /\ writer' = Idle
    /\ UNCHANGED <<flushes, crashed, nonFlVars>>

\* json.dump raises (disk full, a value that cannot be serialised): the
\* exception is caught and logged (Amazon 581, Croma 65, Flipkart 1586) and
\* the file is left as it is.
DumpRaises ==
    /\ ~crashed /\ writer.step = "dump"
    /\ writer' = Idle
    /\ UNCHANGED <<disk, flushes, crashed, nonFlVars>>

\* The process is killed.
Crash ==
    /\ ~crashed
    /\ crashed' = TRUE
    /\ UNCHANGED <<disk, writer, flushes, nonFlVars>>

FlNext ==
    \/ BeginFlush
    \/ OpenForWrite
    \/ Dump
    \/ Replace
    \/ DumpRaises
    \/ Crash

(***************************************************************************)
(* Checkpoint schedule: when each service writes a checkpoint of the       *)
(* working dataset.                                                        *)
(*   Amazon (2645-2675): "(idx + 1) % 100 == 0" at the end of the success  *)
(*   path; the already-processed branch and the handler "continue" before. *)
(*   Croma (1497-1503): "(idx + 1) % 50 == 0" after the try/except of the  *)
(*   link; the cache hit (1343-1350) "continue"s before.                   *)
(*   Flipkart (1579-1585): each worker tests "len(results) % 25 == 0"      *)
(*   some time after its own results.append.                               *)
(***************************************************************************)
CkInit ==
    /\ ck_service = "none"
    /\ ck_count = 0
    /\ ck_workers = [w \in Workers |-> "idle"]
    /\ ck_since = 0

Interval(service) ==
    CASE service = "amazon" -> AmazonBackupEvery
      [] service = "croma" -> CromaBackupEvery
      [] OTHER -> FlipkartSnapshotEvery

\* ck_since after a step that makes the count n, completes a task when
\* completed is true, and reaches the % test when tested is true
SinceAfter(n, completed, tested) ==
    IF tested /\ n % Interval(ck_service) = 0
    THEN 0
    ELSE IF completed THEN ck_since + 1 ELSE ck_since

CkStart ==
    /\ ck_service = "none"
    /\ ck_service' \in {"amazon", "croma", "flipkart"}
    /\ UNCHANGED <<ck_count, ck_workers, ck_since, nonCkVars>>

\* A link is scraped successfully: the % test is reached.
CkScraped ==
    /\ ck_service \in {"amazon", "croma"}
    /\ ck_count < MaxCkTasks
    /\ ck_count' = ck_count + 1
    /\ ck_since' = SinceAfter(ck_count + 1, TRUE, TRUE)
    /\ UNCHANGED <<ck_service, ck_workers, nonCkVars>>

\* A link is served from the cache or the visited log: "continue".
CkServedFromCache ==
    /\ ck_service \in {"amazon", "croma"}
    /\ ck_count < MaxCkTasks
    /\ ck_count' = ck_count + 1
    /\ ck_since' = SinceAfter(ck_count + 1, TRUE, FALSE)
    /\ UNCHANGED <<ck_service, ck_workers, nonCkVars>>

\* A link fails: the Amazon handler "continue"s, the Croma handler falls
\* through to the % test. The failed link is not a completed task.
CkFailed ==
    /\ ck_service \in {"amazon", "croma"}
    /\ ck_count < MaxCkTasks
    /\ ck_count' = ck_count + 1
    /\ ck_since' = SinceAfter(ck_count + 1, FALSE, ck_service = "croma")
    /\ UNCHANGED <<ck_service, ck_workers, nonCkVars>>

\* Flipkart: results.append(stat) (1555).
CkAppend(w) ==
    /\ ck_service = "flipkart"
    /\ ck_workers[w] = "idle"
    /\ ck_count < MaxCkTasks
    /\ ck_count' = ck_count + 1
    /\ ck_since' = ck_since + 1
    /\ ck_workers' = [ck_workers EXCEPT ![w] = "test"]
    /\ UNCHANGED <<ck_service, nonCkVars>>

\* Flipkart: "if len(results) % 25 == 0" (1580) and the snapshot.
CkTest(w) ==
    /\ ck_service = "flipkart"
    /\ ck_workers[w] = "test"
    /\ ck_since' = SinceAfter(ck_count, FALSE, TRUE)
    /\ ck_workers' = [ck_workers EXCEPT ![w] = "idle"]
    /\ UNCHANGED <<ck_service, ck_count, nonCkVars>>

CkNext ==
    \/ CkStart
    \/ CkScraped
    \/ CkServedFromCache
    \/ CkFailed
    \/ \E w \in Workers : CkAppend(w)
    \/ \E w \in Workers : CkTest(w)

\* ---------------------------------------------------------------------
\* The Flipkart run under the API: start_scraping, stop_scraping,
\* run_flipkart_scraper_process and driver_worker with the three locks.
\* ---------------------------------------------------------------------

\* lock owners: a worker, the run thread, or nobody; the request thread of
\* the API never owns a lock
Free == 0

Runner == MaxWorkers + 1

Operator == MaxWorkers + 2

LockNames == {"VISITED_LOCK", "FILE_SAVE_LOCK", "STATUS_LOCK"}

RnInit ==
    /\ scraping_status = [is_running |-> FALSE, completed |-> FALSE,
                          error |-> "None", progress |-> 0]
    /\ run_thread = "idle"
    /\ run_queue = 0
    /\ run_results = 0
    /\ worker_pc = [w \in Workers |-> "unborn"]
    /\ locks = [l \in LockNames |-> Free]
    /\ stop_requested = FALSE
    /\ started_after_stop = FALSE
    /\ unguarded = {}

\* The accesses made without the lock, after thread touches state, which
\* lock guards.
Access(state, thread, lock) ==
    IF locks[lock] = thread THEN unguarded ELSE unguarded \cup {state}

Acquire(lock, thread) == [locks EXCEPT ![lock] = thread]

Release(lock) == [locks EXCEPT ![lock] = Free]

\* POST /start-scraping: refused while is_running, else the run thread is
\* started. The operator starts one run.
StartScraping ==
    /\ run_thread = "idle"
    /\ ~scraping_status.is_running
    /\ run_thread' = "spawned"
    /\ unguarded' = Access("scraping_status", Operator, "STATUS_LOCK")
    /\ UNCHANGED <<scraping_status, run_queue, run_results, worker_pc, locks,
                   stop_requested, started_after_stop, nonRnVars>>

\* run_flipkart_scraper_process: "Reset status".
RunResetStatus ==
    /\ run_thread = "spawned"
    /\ scraping_status' = [is_running |-> TRUE, completed |-> FALSE,
                           error |-> "None", progress |-> 0]
    /\ run_thread' = "setup"
    /\ unguarded' = Access("scraping_status", Runner, "STATUS_LOCK")
    /\ UNCHANGED <<run_queue, run_results, worker_pc, locks,
                   stop_requested, started_after_stop, nonRnVars>>

\* process_comprehensive_flipkart_links up to task_queue.join(): the totals
\* under STATUS_LOCK, the workers started, the links enqueued.
RunSetup ==
    /\ run_thread = "setup"
    /\ locks["STATUS_LOCK"] = Free
    /\ scraping_status' = [scraping_status EXCEPT !.progress = 0]
    /\ run_queue' = NumRunTasks
    /\ run_results' = 0
    /\ worker_pc' = [w \in Workers |-> "get"]
    /\ run_thread' = "join"
    /\ UNCHANGED <<locks, stop_requested, started_after_stop, unguarded,
                   nonRnVars>>

\* driver_worker: task_queue.get() returns a link. The queue is guarded by
\* its own mutex.
WorkerGet(w) ==
    /\ worker_pc[w] = "get"
    /\ run_queue > 0
    /\ run_queue' = run_queue - 1
    /\ worker_pc' = [worker_pc EXCEPT ![w] = "process"]
    /\ started_after_stop' = (started_after_stop \/ stop_requested)
    /\ UNCHANGED <<scraping_status, run_thread, run_results, locks,
                   stop_requested, unguarded, nonRnVars>>

\* _process_single_flipkart_link: the offers are written into
\* store_link_ref, an entry of the working dataset.
WorkerProcess(w) ==
    /\ worker_pc[w] = "process"
    /\ worker_pc' = [worker_pc EXCEPT ![w] = "visit"]
    /\ unguarded' = IF locks["FILE_SAVE_LOCK"] \notin {Free, w}
                    THEN unguarded \cup {"dataset"}
                    ELSE unguarded
    /\ UNCHANGED <<scraping_status, run_thread, run_queue, run_results, locks,
                   stop_requested, started_after_stop, nonRnVars>>

\* append_visited_url: "with VISITED_LOCK".
WorkerVisitLock(w) ==
    /\ worker_pc[w] = "visit"
    /\ locks["VISITED_LOCK"] = Free
    /\ locks' = Acquire("VISITED_LOCK", w)
    /\ worker_pc' = [worker_pc EXCEPT ![w] = "visiting"]
    /\ UNCHANGED <<scraping_status, run_thread, run_queue, run_results,
                   stop_requested, started_after_stop, unguarded, nonRnVars>>

\* The line is written, the lock released, and results.append(stat).
WorkerVisitAppend(w) ==
    /\ worker_pc[w] = "visiting"
    /\ unguarded' = Access("visited_log", w, "VISITED_LOCK")
    /\ locks' = Release("VISITED_LOCK")
    /\ run_results' = run_results + 1
    /\ worker_pc' = [worker_pc EXCEPT ![w] = "status"]
    /\ UNCHANGED <<scraping_status, run_thread, run_queue,
                   stop_requested, started_after_stop, nonRnVars>>

\* "with STATUS_LOCK:"
WorkerStatusLock(w) ==
    /\ worker_pc[w] = "status"
    /\ locks["STATUS_LOCK"] = Free
    /\ locks' = Acquire("STATUS_LOCK", w)
    /\ worker_pc' = [worker_pc EXCEPT ![w] = "status_locked"]
    /\ UNCHANGED <<scraping_status, run_thread, run_queue, run_results,
                   stop_requested, started_after_stop, unguarded, nonRnVars>>

\* scraping_status['progress'] = len(results), and the lock released.
WorkerStatusUpdate(w) ==
    /\ worker_pc[w] = "status_locked"
    /\ scraping_status' = [scraping_status EXCEPT !.progress = run_results]
    /\ unguarded' = Access("scraping_status", w, "STATUS_LOCK")
    /\ locks' = Release("STATUS_LOCK")
    /\ worker_pc' = [worker_pc EXCEPT ![w] = "test"]
    /\ UNCHANGED <<run_thread, run_queue, run_results,
                   stop_requested, started_after_stop, nonRnVars>>

\* "if len(results) % 25 == 0:" and "with FILE_SAVE_LOCK:".
WorkerTest(w) ==
    /\ worker_pc[w] = "test"
    /\ IF run_results % FlipkartSnapshotEvery = 0
       THEN /\ locks["FILE_SAVE_LOCK"] = Free
            /\ locks' = Acquire("FILE_SAVE_LOCK", w)
            /\ worker_pc' = [worker_pc EXCEPT ![w] = "snapshot"]
       ELSE /\ locks' = locks
            /\ worker_pc' = [worker_pc EXCEPT ![w] = "done"]
    /\ UNCHANGED <<scraping_status, run_thread, run_queue, run_results,
                   stop_requested, started_after_stop, unguarded, nonRnVars>>

\* json.dump(data_ref, f) and the lock released.
WorkerSnapshot(w) ==
    /\ worker_pc[w] = "snapshot"
    /\ unguarded' = Access("dataset", w, "FILE_SAVE_LOCK")
    /\ locks' = Release("FILE_SAVE_LOCK")
    /\ worker_pc' = [worker_pc EXCEPT ![w] = "done"]
    /\ UNCHANGED <<scraping_status, run_thread, run_queue, run_results,
                   stop_requested, started_after_stop, nonRnVars>>

\* finally: task_queue.task_done(), and back to task_queue.get().
WorkerTaskDone(w) ==
    /\ worker_pc[w] = "done"
    /\ worker_pc' = [worker_pc EXCEPT ![w] = "get"]
    /\ UNCHANGED <<scraping_status, run_thread, run_queue, run_results, locks,
                   stop_requested, started_after_stop, unguarded, nonRnVars>>

\* task_queue.join() returns when every link is done; one None is put for
\* each worker.
RunJoin ==
    /\ run_thread = "join"
    /\ run_queue = 0
    /\ \A w \in Workers : worker_pc[w] = "get"
    /\ run_thread' = "sentinels"
    /\ UNCHANGED <<scraping_status, run_queue, run_results, worker_pc, locks,
                   stop_requested, started_after_stop, unguarded, nonRnVars>>

\* task_queue.get() returns None: the worker leaves its loop.
WorkerSentinel(w) ==
    /\ run_thread = "sentinels"
    /\ worker_pc[w] = "get"
    /\ worker_pc' = [worker_pc EXCEPT ![w] = "exit"]
    /\ UNCHANGED <<scraping_status, run_thread, run_queue, run_results, locks,
                   stop_requested, started_after_stop, unguarded, nonRnVars>>

\* The workers are joined, the output saved, and
\* run_flipkart_scraper_process marks the run completed.
RunMarkCompleted ==
    /\ run_thread = "sentinels"
    /\ \A w \in Workers : worker_pc[w] = "exit"
    /\ scraping_status' = [scraping_status EXCEPT !.is_running = FALSE,
                                                  !.completed = TRUE]
    /\ unguarded' = Access("scraping_status", Runner, "STATUS_LOCK")
    /\ run_thread' = "ended"
    /\ UNCHANGED <<run_queue, run_results, worker_pc, locks,
                   stop_requested, started_after_stop, nonRnVars>>

\* POST /stop-scraping: refused unless is_running, else the status is
\* updated.
StopScraping ==
    /\ scraping_status.is_running
    /\ scraping_status' = [scraping_status EXCEPT
                               !.is_running = FALSE,
                               !.completed = FALSE,
                               !.error = "Stopped by user request"]
    /\ stop_requested' = TRUE
    /\ unguarded' = Access("scraping_status", Operator, "STATUS_LOCK")
    /\ UNCHANGED <<run_thread, run_queue, run_results, worker_pc, locks,
                   started_after_stop, nonRnVars>>

RnNext ==
    \/ StartScraping
    \/ RunResetStatus
    \/ RunSetup
    \/ \E w \in Workers : WorkerGet(w)
    \/ \E w \in Workers : WorkerProcess(w)
    \/ \E w \in Workers : WorkerVisitLock(w)
    \/ \E w \in Workers : WorkerVisitAppend(w)
    \/ \E w \in Workers : WorkerStatusLock(w)
    \/ \E w \in Workers : WorkerStatusUpdate(w)
    \/ \E w \in Workers : WorkerTest(w)
    \/ \E w \in Workers : WorkerSnapshot(w)
    \/ \E w \in Workers : WorkerTaskDone(w)
    \/ RunJoin
    \/ \E w \in Workers : WorkerSentinel(w)
    \/ RunMarkCompleted
    \/ StopScraping

\* ---------------------------------------------------------------------
\* The keys of the Amazon visited log and cache. A URL is the string of
\* store_link['url']; the characters stand for a character of a URL, a
\* blank and the comment mark of the visited file.
\* ---------------------------------------------------------------------
Chars == {"a", " ", "#"}

UrlStrings ==
    UNION {[1..n -> Chars] : n \in 1..MaxUrlLen}

RECURSIVE lstrip(_)
lstrip(line) ==
    IF line # <<>> /\ Head(line) = " " THEN lstrip(Tail(line)) ELSE line

RECURSIVE rstrip(_)
rstrip(line) ==
    IF line # <<>> /\ line[Len(line)] = " "
    THEN rstrip(SubSeq(line, 1, Len(line) - 1))
    ELSE line

\* str.strip()
strip(line) == rstrip(lstrip(line))

\* load_visited_urls (716-731) over the lines of the file: each line is
\* stripped, and kept unless it is empty or starts with '#'
load_visited_lines(lines) ==
    {strip(line) : line \in {l \in lines : strip(l) # <<>> /\ Head(strip(l)) # "#"}}

\* "amazon_url in visited_urls or amazon_url in url_cache" (2455)
KeyFound(u) == u \in key_visited \/ u \in key_cache

KyInit ==
    /\ key_file = {}
    /\ key_visited = {}
    /\ key_cache = {}
    /\ key_cache_file = {}
    /\ key_recorded = {}

\* Lines 2638-2641: the link was scraped: the URL is appended to the file,
\* added to the set, and its snapshot put in the cache.
KeyRecordScraped ==
    /\ Cardinality(key_recorded) < MaxKeyRecords
    /\ \E u \in UrlStrings :
        /\ ~KeyFound(u)
        /\ key_file' = key_file \cup {u}
        /\ key_visited' = key_visited \cup {u}
        /\ key_cache' = key_cache \cup {u}
        /\ key_recorded' = key_recorded \cup {u}
    /\ UNCHANGED <<key_cache_file, nonKyVars>>

\* Lines 2884-2885: the link was scraped on the retry through a proxy: the
\* URL is appended to the file and added to the set.
KeyRecordRetried ==
    /\ Cardinality(key_recorded) < MaxKeyRecords
    /\ \E u \in UrlStrings :
        /\ ~KeyFound(u)
        /\ key_file' = key_file \cup {u}
        /\ key_visited' = key_visited \cup {u}
        /\ key_recorded' = key_recorded \cup {u}
    /\ UNCHANGED <<key_cache, key_cache_file, nonKyVars>>

\* save_url_cache (571-582): json keeps the keys as they are
KeySaveCache ==
    /\ key_cache_file # key_cache
    /\ key_cache_file' = key_cache
    /\ UNCHANGED <<key_file, key_visited, key_cache, key_recorded, nonKyVars>>

\* A new run (2407-2410) after the last one ended and saved its cache
\* (3143): the set is read from the file and the cache from its file.
KeyReload ==
    /\ key_cache_file = key_cache
    /\ key_visited' = load_visited_lines(key_file)
    /\ key_cache' = key_cache_file
    /\ UNCHANGED <<key_file, key_cache_file, key_recorded, nonKyVars>>

KyNext ==
    \/ KeyRecordScraped
    \/ KeyRecordRetried
    \/ KeySaveCache
    \/ KeyReload

\* ---------------------------------------------------------------------
\* The tasks executed on one browser handle: the Croma loop with its
\* RobustDriverManager, and one Flipkart driver_worker.
\* ---------------------------------------------------------------------

\* RobustDriverManager.__init__: self.max_sessions = 100
max_sessions == 100

RenewalsCap == 2

SsInit ==
    /\ session_service = "none"
    /\ session_count = 0
    /\ session_links = 0
    /\ handle_tasks = 0
    /\ renewals = 0

\* The run starts with a fresh handle: RobustDriverManager() in the Croma
\* loop, create_chrome_driver() for the Flipkart worker.
SessionStart ==
    /\ session_service = "none"
    /\ session_service' \in {"croma", "flipkart"}
    /\ UNCHANGED <<session_count, session_links, handle_tasks, renewals,
                   nonSsVars>>

Renewed(n) == IF n < RenewalsCap THEN n + 1 ELSE n

\* Croma: the link is served from the cache or has no URL: "continue"
\* before get_driver is called.
CromaSkipsLink ==
    /\ session_service = "croma"
    /\ session_links < MaxSessionTasks
    /\ session_links' = session_links + 1
    /\ UNCHANGED <<session_service, session_count, handle_tasks, renewals,
                   nonSsVars>>

\* Croma: get_driver (237-244), with create_new_driver when the count has
\* reached max_sessions, and the link visited on the handle returned.
CromaGetDriver ==
    /\ session_service = "croma"
    /\ session_links < MaxSessionTasks
    /\ session_links' = session_links + 1
    /\ LET renew == session_count >= max_sessions IN
        /\ session_count' = (IF renew THEN 0 ELSE session_count) + 1
        /\ handle_tasks' = (IF renew THEN 0 ELSE handle_tasks) + 1
        /\ renewals' = IF renew THEN Renewed(renewals) ELSE renewals
    /\ UNCHANGED <<session_service, nonSsVars>>

\* Flipkart: driver_worker (1541-1589) takes a link and processes it on its
\* driver; ensure_driver_alive returns the driver it was given.
FlipkartWorkerTask ==
    /\ session_service = "flipkart"
    /\ session_links < MaxSessionTasks
    /\ session_links' = session_links + 1
    /\ handle_tasks' = handle_tasks + 1
    /\ UNCHANGED <<session_service, session_count, renewals, nonSsVars>>

\* Flipkart: the session is invalid: ensure_driver_alive (1450-1465) or the
\* handler of driver_worker creates a new driver, and the link is processed
\* on it.
FlipkartWorkerRecreates ==
    /\ session_service = "flipkart"
    /\ session_links < MaxSessionTasks
    /\ session_links' = session_links + 1
    /\ handle_tasks' = 1
    /\ renewals' = Renewed(renewals)
    /\ UNCHANGED <<session_service, session_count, nonSsVars>>

SsNext ==
    \/ SessionStart
    \/ CromaSkipsLink
    \/ CromaGetDriver
    \/ FlipkartWorkerTask
    \/ FlipkartWorkerRecreates

\* ---------------------------------------------------------------------
\* OfferAnalyzer.calculate_offer_score. Amounts are whole numbers of 1000
\* rupees. A score is a fraction num / den whose denominator is the product
\* price (1 when the price is 0), so that every quotient of the function
\* is exact.
\* ---------------------------------------------------------------------
Max(a, b) == IF a > b THEN a ELSE b

\* min_spend is None
NoMinSpend == -1

OfferTypes == {"Bank Offer", "Cashback"}

Offers ==
    [type : OfferTypes,
     amount : 0..MaxAmount,
     min_spend : {NoMinSpend} \cup 0..MaxMinSpend,
     is_instant : BOOLEAN]

NoOffer ==
    [type |-> "none", amount |-> 0, min_spend |-> NoMinSpend,
     is_instant |-> FALSE]

Returned(num, den) == [raised |-> "None", num |-> num, den |-> den]

Raised(exception) == [raised |-> exception, num |-> 0, den |-> 1]

\* the denominator of the scores computed for price p
Den(p) == IF p > 0 THEN p ELSE 1

\* "base_score = 80" and the discount bonus (1645-1653):
\* min(amount / price * 100 * 2, 50)
discount_points(o, p) ==
    IF p > 0 /\ o.amount > 0 THEN Min(200 * o.amount, 50 * p) ELSE 0

\* "if offer.min_spend": None and 0 are false
Truthy(m) == m # NoMinSpend /\ m # 0

\* The minimum-spend part with the penalty branch left out: what the
\* function would return if a minimum spend above the price cost nothing.
min_spend_adjustment_no_penalty(base_score, o, p) ==
    LET m == o.min_spend IN
    IF m = NoMinSpend
    THEN Returned(base_score + 20 * Den(p), Den(p))
    ELSE IF p > 0 /\ 10 * m <= 9 * p
         THEN Returned(base_score + 10 * (p - m), p)
         ELSE Returned(base_score, Den(p))

\* The minimum-spend part (1655-1683), from the score so far: the penalty
\* when the minimum spend is above the price, else the bonus.
min_spend_adjustment(base_score, o, p) ==
    LET m == o.min_spend IN
    IF Truthy(m) /\ m > p
    THEN IF p = 0
         THEN Raised("ZeroDivisionError")
         ELSE IF 100 * (m - p) > 50 * p
              THEN Returned(15 * p, p)
              ELSE Returned(Max(base_score - 50 * (m - p), 20 * p), p)
    ELSE IF m = NoMinSpend
         THEN Returned(base_score + 20 * Den(p), Den(p))
         ELSE IF p > 0
              THEN IF 10 * m <= 9 * p
                   THEN Returned(base_score + 10 * (p - m), p)
                   ELSE Returned(base_score, p)
              ELSE Returned(base_score + 10, 1)

\* calculate_offer_score (1638-1695)
calculate_offer_score(o, p) ==
    IF o.type # "Bank Offer"
    THEN Returned(0, Den(p))
    ELSE LET adjusted ==
                 min_spend_adjustment(80 * Den(p) + discount_points(o, p), o, p)
             with_instant ==
                 adjusted.num + (IF o.is_instant THEN 5 * Den(p) ELSE 0)
         IN  IF adjusted.raised # "None"
             THEN adjusted
             ELSE Returned(Max(0, Min(100 * Den(p), with_instant)), Den(p))

\* no score yet for the offer at hand
Pending == [raised |-> "pending", num |-> 0, den |-> 1]

ScInit ==
    /\ offer = NoOffer
    /\ product_price = 0
    /\ final_score = Pending

\* rank_offers (1697-1705): the next offer of the page is parsed, to be
\* ranked against the price of the product.
ParseOffer ==
    /\ offer = NoOffer
    /\ offer' \in Offers
    /\ product_price' \in 0..MaxPrice
    /\ final_score' = Pending
    /\ UNCHANGED nonScVars

\* rank_offers (1716-1718): score = self.calculate_offer_score(offer,
\* product_price)
ScoreOffer ==
    /\ offer # NoOffer
    /\ final_score = Pending
    /\ final_score' = calculate_offer_score(offer, product_price)
    /\ UNCHANGED <<offer, product_price, nonScVars>>

\* The scored offer is appended to the list and the loop goes on.
NextOffer ==
    /\ final_score # Pending
    /\ offer' = NoOffer
    /\ product_price' = 0
    /\ final_score' = Pending
    /\ UNCHANGED nonScVars

ScNext ==
    \/ ParseOffer
    \/ ScoreOffer
    \/ NextOffer

\* ---------------------------------------------------------------------
\* rank_offers of the four analyzers. An offer of the page is given by what
\* the extract_* functions read from its description; its position in the
\* list stands for its title and description.
\* ---------------------------------------------------------------------
Platforms == {"amazon", "flipkart", "croma", "jiomart"}

Banks == {"None", "ICICI Bank"}

CardTypes == {"None", "Credit"}

PageOffers ==
    [type : OfferTypes,
     amount : 0..MaxRankAmount,
     min_spend : {NoMinSpend, RankMinSpend, RankMinSpend + 1},
     bank : Banks,
     card_type : CardTypes,
     is_instant : BOOLEAN]

OfferLists == UNION {[1..n -> PageOffers] : n \in 0..MaxOffers}

\* what analyze_description_with_gemini answers during one call
GeminiAnswers == [bank : Banks, card_type : CardTypes]

\* bank_scores.get(offer.bank, default_bank_score): "ICICI Bank": 90
bank_scores(bank) == IF bank = "ICICI Bank" THEN 90 ELSE 70

\* (bank_scores.get(...) - 70) / 2, or the penalty of 5 for no bank
bank_bonus(o) ==
    IF o.bank # "None" THEN (bank_scores(o.bank) - 70) \div 2 ELSE -5

\* JioMart: 3 for a "Credit" card
card_type_bonus(o) == IF o.card_type = "Credit" THEN 3 ELSE 0

Clamped(num, p) == Returned(Max(0, Min(100 * Den(p), num)), Den(p))

\* parse_offer of each analyzer, from the fields read off the description
parse_offer(platform, o, gemini) ==
    CASE platform = "amazon" ->
             [o EXCEPT !.bank = IF @ = "None" THEN gemini.bank ELSE @,
                       !.card_type = IF @ = "None" THEN gemini.card_type ELSE @]
      [] platform = "croma" ->
             [o EXCEPT !.min_spend = NoMinSpend, !.is_instant = TRUE]
      [] OTHER -> o

\* calculate_offer_score of each analyzer
platform_score(platform, o, p) ==
    LET adjusted ==
            min_spend_adjustment(80 * Den(p) + discount_points(o, p), o, p)
        instant == IF o.is_instant THEN 5 * Den(p) ELSE 0
    IN  CASE platform = "amazon" -> calculate_offer_score(o, p)
          [] platform = "croma" ->
                 Clamped(80 * Den(p) + discount_points(o, p)
                         + (IF o.bank # "None" THEN bank_bonus(o) * Den(p) ELSE 0),
                         p)
          [] platform = "flipkart" ->
                 IF adjusted.raised # "None" THEN adjusted
                 ELSE Clamped(adjusted.num + bank_bonus(o) * Den(p), p)
          [] OTHER ->
                 IF adjusted.raised # "None" THEN adjusted
                 ELSE Clamped(adjusted.num + instant
                              + (bank_bonus(o) + card_type_bonus(o)) * Den(p), p)

\* 'score': None and 'rank': None
NoScore == -1

NoRank == 0

\* the test with "<=" in the place of "<"
NotApplicable_AtMinSpend(platform, o, p) ==
    platform # "croma" /\ Truthy(o.min_spend) /\ p <= o.min_spend

\* "if offer.min_spend and product_price < offer.min_spend" (Amazon,
\* Flipkart, JioMart); the Croma analyzer has no such test
NotApplicable(platform, o, p) ==
    platform # "croma" /\ Truthy(o.min_spend) /\ p < o.min_spend

\* the dictionary appended for offer o, which stood at position i
RankedItem(platform, o, i, p, score) ==
    [description |-> i,
     offer_type |-> o.type,
     amount |-> o.amount,
     min_spend |-> o.min_spend,
     bank |-> o.bank,
     card_type |-> o.card_type,
     score |-> score,
     rank |-> NoRank,
     is_applicable |-> ~NotApplicable(platform, o, p),
     net_effective_price |->
         IF NotApplicable(platform, o, p) THEN p ELSE Max(p - o.amount, 0)]

\* list.sort(key=lambda x: x['score'], reverse=True), turned the other way
\* round on equal scores
RECURSIVE insert_before_equal(_, _)
insert_before_equal(sorted, x) ==
    IF sorted = <<>> THEN <<x>>
    ELSE IF Head(sorted).score > x.score
         THEN <<Head(sorted)>> \o insert_before_equal(Tail(sorted), x)
         ELSE <<x>> \o sorted

\* list.sort(key=lambda x: x['score'], reverse=True): descending, and
\* items of equal score stay in the order they had
RECURSIVE insert_by_score(_, _)
insert_by_score(sorted, x) ==
    IF sorted = <<>> THEN <<x>>
    ELSE IF Head(sorted).score >= x.score
         THEN <<Head(sorted)>> \o insert_by_score(Tail(sorted), x)
         ELSE <<x>> \o sorted

RECURSIVE sort_by_score(_)
sort_by_score(items) ==
    IF items = <<>> THEN <<>>
    ELSE insert_by_score(sort_by_score(SubSeq(items, 1, Len(items) - 1)),
                         items[Len(items)])

\* "for idx, offer in enumerate(...): offer['rank'] = idx + 1"
with_ranks(items) == [i \in 1..Len(items) |-> [items[i] EXCEPT !.rank = i]]

\* the items of a list whose offer is, or is not, a Bank Offer
RECURSIVE select_items(_, _)
select_items(items, bank_offers) ==
    IF items = <<>> THEN <<>>
    ELSE (IF (Head(items).offer_type = "Bank Offer") = bank_offers
          THEN <<Head(items)>> ELSE <<>>)
         \o select_items(Tail(items), bank_offers)

\* rank_offers
rank_offers(platform, data, p, gemini) ==
    LET parsed == [i \in 1..Len(data) |-> parse_offer(platform, data[i], gemini)]
        scores == [i \in 1..Len(data) |-> platform_score(platform, parsed[i], p)]
        is_bank(i) == parsed[i].type = "Bank Offer"
        any_bank == \E i \in 1..Len(data) : is_bank(i)
        raised == {i \in 1..Len(data) : is_bank(i) /\ scores[i].raised # "None"}
        items == [i \in 1..Len(data) |->
                     RankedItem(platform, parsed[i], i, p,
                                IF is_bank(i) THEN scores[i].num
                                ELSE IF platform = "flipkart" /\ ~any_bank
                                     THEN parsed[i].amount * Den(p)
                                     ELSE NoScore)]
        scored_bank_offers == with_ranks(sort_by_score(select_items(items, TRUE)))
        others == select_items(items, FALSE)
        ranked_others == IF platform = "flipkart" /\ ~any_bank
                         THEN with_ranks(sort_by_score(others))
                         ELSE others
    IN  IF raised # {}
        THEN [raised |-> "ZeroDivisionError", items |-> <<>>]
        ELSE [raised |-> "None", items |-> scored_bank_offers \o ranked_others]

NotCalled == [raised |-> "not called", items |-> <<>>]

RkInit ==
    /\ rank_platform = "amazon"
    /\ offers_data = <<>>
    /\ rank_price = 0
    /\ ranked = NotCalled
    /\ ranked_before = NotCalled
    /\ rank_calls = 0

\* The offers of a page are ranked against the price of the product.
RankOffers ==
    /\ rank_calls = 0
    /\ rank_platform' \in Platforms
    /\ offers_data' \in OfferLists
    /\ rank_price' \in 0..MaxRankPrice
    /\ \E gemini \in GeminiAnswers :
        ranked' = rank_offers(rank_platform', offers_data', rank_price', gemini)
    /\ ranked_before' = NotCalled
    /\ rank_calls' = 1
    /\ UNCHANGED nonRkVars

\* The same offers are ranked once more against the same price.
RankAgain ==
    /\ rank_calls = 1
    /\ \E gemini \in GeminiAnswers :
        ranked' = rank_offers(rank_platform, offers_data, rank_price, gemini)
    /\ ranked_before' = ranked
    /\ rank_calls' = 2
    /\ UNCHANGED <<rank_platform, offers_data, rank_price, nonRkVars>>

\* The next page.
RankNextPage ==
    /\ rank_calls > 0
    /\ rank_platform' = "amazon"
    /\ offers_data' = <<>>
    /\ rank_price' = 0
    /\ ranked' = NotCalled
    /\ ranked_before' = NotCalled
    /\ rank_calls' = 0
    /\ UNCHANGED nonRkVars

RkNext ==
    \/ RankOffers
    \/ RankAgain
    \/ RankNextPage

\* ---------------------------------------------------------------------
\* The stock state of a Flipkart page and the retry of an undetermined one.
\* in_stock is True, False or None, written "True", "False", "None".
\* ---------------------------------------------------------------------
\* max_retries_for_undetermined = 2
max_retries_for_undetermined == 2

\* get_flipkart_offers(driver, url, max_retries=2) loads the page once per
\* attempt of its own
get_offers_max_retries == 2

\* What one call of get_flipkart_offers and the page it left in the driver
\* show: the "Sold Out" tag, the offers accepted, the loads of the page.
PageViews ==
    [sold_out_found : BOOLEAN,
     offers : 0..MaxStockOffers,
     loads : 1..get_offers_max_retries]

\* the rules with the offers asked first
stock_state_offers_first(sold_out_found, offers_found) ==
    IF offers_found THEN "True"
    ELSE IF sold_out_found THEN "False"
    ELSE "None"

\* extract_flipkart_price_and_stock, rules 1 to 3
stock_state(sold_out_found, offers_found) ==
    IF sold_out_found THEN "False"
    ELSE IF offers_found /\ ~sold_out_found THEN "True"
    ELSE "None"

\* offers_found = bool(offers and len(offers) > 0), then the extraction
Evaluate(view) ==
    [sold_out_found |-> view.sold_out_found,
     offers |-> view.offers,
     in_stock |-> stock_state(view.sold_out_found, view.offers > 0)]

\* the loop goes on whatever the state, as long as retries are left
retry_while_retries_left(in_stock, retries) ==
    retries < max_retries_for_undetermined

\* "while price_stock_info['in_stock'] is None and retry_count < ..."
retry_undetermined(in_stock, retries) ==
    in_stock = "None" /\ retries < max_retries_for_undetermined

StInit ==
    /\ stock_pc = "idle"
    /\ price_stock_info = "None"
    /\ retry_count = 0
    /\ stock_attempts = <<>>
    /\ page_loads = 0
    /\ store_in_stock = "unset"
    /\ stock_error = FALSE

\* The link is taken up: offers and stock are read from the page.
ProcessStockLink ==
    /\ stock_pc = "idle"
    /\ \E view \in PageViews :
        /\ stock_attempts' = <<Evaluate(view)>>
        /\ price_stock_info' = Evaluate(view).in_stock
        /\ page_loads' = view.loads
    /\ retry_count' = 0
    /\ stock_pc' = "evaluated"
    /\ UNCHANGED <<store_in_stock, stock_error, nonStVars>>

\* One round of the retry loop: the page is fetched and evaluated again.
RetryUndetermined ==
    /\ stock_pc = "evaluated"
    /\ retry_undetermined(price_stock_info, retry_count)
    /\ retry_count' = retry_count + 1
    /\ \E view \in PageViews :
        /\ stock_attempts' = Append(stock_attempts, Evaluate(view))
        /\ price_stock_info' = Evaluate(view).in_stock
        /\ page_loads' = page_loads + view.loads
    /\ UNCHANGED <<stock_pc, store_in_stock, stock_error, nonStVars>>

\* The loop is left and the state is written into the store link.
StoreStock ==
    /\ stock_pc = "evaluated"
    /\ ~retry_undetermined(price_stock_info, retry_count)
    /\ store_in_stock' = price_stock_info
    /\ stock_pc' = "done"
    /\ UNCHANGED <<price_stock_info, retry_count, stock_attempts, page_loads,
                   stock_error, nonStVars>>

\* The browser session is lost during a round of the loop: the exception
\* leaves the function and nothing is written.
StockSessionLost ==
    /\ stock_pc = "evaluated"
    /\ retry_undetermined(price_stock_info, retry_count)
    /\ page_loads' = page_loads + 1
    /\ stock_error' = TRUE
    /\ stock_pc' = "done"
    /\ UNCHANGED <<price_stock_info, retry_count, stock_attempts, store_in_stock,
                   nonStVars>>

\* The next link.
NextStockLink ==
    /\ stock_pc = "done"
    /\ stock_pc' = "idle"
    /\ price_stock_info' = "None"
    /\ retry_count' = 0
    /\ stock_attempts' = <<>>
    /\ page_loads' = 0
    /\ store_in_stock' = "unset"
    /\ stock_error' = FALSE
    /\ UNCHANGED nonStVars

StNext ==
    \/ ProcessStockLink
    \/ RetryUndetermined
    \/ StoreStock
    \/ StockSessionLost
    \/ NextStockLink

\* How the caller of rank_offers ends the task: the Amazon loop and
\* _process_single_flipkart_link catch the exception and record an error,
\* the JioMart loop catches nothing but KeyboardInterrupt and ends the run.
task_outcome(platform, result) ==
    IF result.raised = "None" THEN "success"
    ELSE IF platform = "jiomart" THEN "run aborted"
    ELSE "error"

\* ---------------------------------------------------------------------
\* extract_bank of the Amazon and the JioMart analyzer. A description is the
\* sequence of its lower-case words; "pattern.lower() in description_lower"
\* is the search for the words of the pattern, side by side, in it. The
\* tables keep the order of the source and are cut down to the entries that
\* can occur in a description made of Words.
\* ---------------------------------------------------------------------
Words == {"central", "union", "bank", "of", "india", "au", "small", "finance"}

Descriptions == UNION {[1..n -> Words] : n \in 0..MaxWords}

\* pattern in description_lower
Contains(description, pattern) ==
    \E i \in 0..(Len(description) - Len(pattern)) :
        SubSeq(description, i + 1, i + Len(pattern)) = pattern

Pattern(bank, pattern) == [bank |-> bank, pattern |-> pattern]

\* self.bank_name_patterns, entry by entry and pattern by pattern
bank_name_patterns ==
    << Pattern("Union Bank of India", <<"union", "bank">>),
       Pattern("Union Bank of India", <<"union", "bank", "of", "india">>),
       Pattern("Bank of India", <<"bank", "of", "india">>),
       Pattern("Central Bank of India", <<"central", "bank">>),
       Pattern("Central Bank of India", <<"central", "bank", "of", "india">>),
       Pattern("AU Small Finance Bank", <<"au", "bank">>),
       Pattern("AU Small Finance Bank", <<"au", "small", "finance">>),
       Pattern("AU Small Finance Bank", <<"au">>),
       Pattern("AU Small Finance Bank", <<"au", "small", "finance", "bank">>) >>

\* sorted(self.bank_scores.keys(), key=len, reverse=True)
sorted_banks ==
    << Pattern("Central Bank of India", <<"central", "bank", "of", "india">>),
       Pattern("AU Small Finance Bank", <<"au", "small", "finance", "bank">>),
       Pattern("Union Bank of India", <<"union", "bank", "of", "india">>),
       Pattern("Bank of India", <<"bank", "of", "india">>) >>

\* bank_variations of the Amazon analyzer
amazon_bank_variations ==
    << Pattern("AU Small Finance Bank", <<"au", "bank">>),
       Pattern("Union Bank of India", <<"union", "bank">>),
       Pattern("Bank of India", <<"bank", "of", "india">>),
       Pattern("Central Bank of India", <<"central", "bank">>) >>

\* bank_variations of the JioMart analyzer, the only table it searches
jiomart_bank_variations ==
    << Pattern("AU Bank", <<"au", "bank">>),
       Pattern("Union Bank of India", <<"union", "bank">>),
       Pattern("Bank of India", <<"bank", "of", "india">>),
       Pattern("Central Bank of India", <<"central", "bank">>) >>

\* the patterns of an analyzer in the order in which extract_bank tries them
PatternsTried(platform) ==
    IF platform = "amazon"
    THEN bank_name_patterns \o sorted_banks \o amazon_bank_variations
    ELSE jiomart_bank_variations

\* "for ...: if pattern in description_lower: return bank"
RECURSIVE first_match(_, _)
first_match(patterns, description) ==
    IF patterns = <<>> THEN "None"
    ELSE IF Contains(description, Head(patterns).pattern)
         THEN Head(patterns).bank
         ELSE first_match(Tail(patterns), description)

\* extract_bank; an empty description gives None
extract_bank(platform, description) ==
    IF description = <<>> THEN "None"
    ELSE first_match(PatternsTried(platform), description)

\* the name of a bank as it stands in a description
CanonicalName(bank) ==
    CASE bank = "Union Bank of India" -> <<"union", "bank", "of", "india">>
      [] bank = "Bank of India" -> <<"bank", "of", "india">>
      [] bank = "Central Bank of India" -> <<"central", "bank", "of", "india">>
      [] bank = "AU Small Finance Bank" -> <<"au", "small", "finance", "bank">>
      [] bank = "AU Bank" -> <<"au", "bank">>

BkInit ==
    /\ bank_platform = "amazon"
    /\ bank_description = <<>>
    /\ extracted_bank = "not called"

\* parse_offer reads the bank off the description of an offer.
ExtractBank ==
    /\ extracted_bank = "not called"
    /\ bank_platform' \in {"amazon", "jiomart"}
    /\ bank_description' \in Descriptions
    /\ extracted_bank' = extract_bank(bank_platform', bank_description')
    /\ UNCHANGED nonBkVars

\* The next offer.
NextDescription ==
    /\ extracted_bank # "not called"
    /\ bank_platform' = "amazon"
    /\ bank_description' = <<>>
    /\ extracted_bank' = "not called"
    /\ UNCHANGED nonBkVars

BkNext ==
    \/ ExtractBank
    \/ NextDescription

\* ---------------------------------------------------------------------
\* container_planner.plan. Arguments left out on the command line are None;
\* plan tests them by truth value, which a 0 fails as well, so None is
\* written 0. Seconds and megabytes are small integers.
\* ---------------------------------------------------------------------
\* mem_cap = None
NoCap == -1

PlanArgs ==
    [total_links : 1..MaxPlanLinks,
     assumed_seconds_per_link : 1..MaxPlanArg,
     target_seconds : 0..MaxPlanArg,
     containers : 0..MaxPlanArg,
     max_containers : 0..MaxPlanArg,
     cpu_cores : 1..MaxPlanArg,
     cpu_utilization_halves : 1..2,
     total_memory_mb : 0..MaxPlanArg,
     memory_per_container_mb : 1..MaxPlanArg,
     memory_overhead_mb : 0..1]

\* math.ceil(a / b) for integers a >= 0, b > 0
Ceil(a, b) == (a + b - 1) \div b

\* cpu_cap = int(math.ceil(cpu_cores * args.cpu_utilization_factor))
cpu_cap(args) == Ceil(args.cpu_cores * args.cpu_utilization_halves, 2)

\* usable_mem // args.memory_per_container_mb, when both are given
mem_cap(args) ==
    IF args.total_memory_mb # 0 /\ args.memory_per_container_mb # 0
    THEN Max(0, args.total_memory_mb - args.memory_overhead_mb)
             \div args.memory_per_container_mb
    ELSE NoCap

\* max(1, math.ceil((total_links * avg_sec) / target_seconds)), 0 for None
derived_needed(args) ==
    IF args.target_seconds # 0
    THEN Max(1, Ceil(args.total_links * args.assumed_seconds_per_link,
                     args.target_seconds))
    ELSE 0

\* "if mem_cap:"
mem_cap_applies(cap) == cap # NoCap /\ cap # 0

\* the final container count
final_containers(args) ==
    LET chosen == IF args.containers # 0 THEN args.containers
                  ELSE IF derived_needed(args) # 0 THEN derived_needed(args)
                  ELSE 1
        by_cpu == IF cpu_cap(args) # 0 THEN Min(chosen, cpu_cap(args)) ELSE chosen
        by_mem == IF mem_cap_applies(mem_cap(args))
                  THEN Min(by_cpu, mem_cap(args)) ELSE by_cpu
        by_max == IF args.max_containers # 0
                  THEN Min(by_mem, args.max_containers) ELSE by_mem
    IN  Max(1, by_max)

\* one entry of "commands": --shard-index, --total-shards, --output-file
Command(shard, containers) ==
    [shard_index |-> shard,
     total_shards |-> containers,
     output_file |-> [base |-> "output_base", shard |-> shard + 1,
                      of |-> containers]]

plan(args) ==
    [cpu_cap |-> cpu_cap(args),
     memory_cap |-> mem_cap(args),
     derived_needed_for_target |-> derived_needed(args),
     final_containers |-> final_containers(args),
     commands |-> [i \in 1..final_containers(args) |->
                      Command(i - 1, final_containers(args))]]

\* the links of the input file, in the order find_all_flipkart_store_links
\* returns them
PlanLinks == 1..plan_args.total_links

\* The scraper started in a container: __main__ looks at sys.argv[1] only
\* ("--api" or not), takes all_data.json, names its output after the second
\* it starts in, and processes every link found.
scraper_links(command) == PlanLinks

scraper_output(command, second) ==
    [base |-> "all_data_flipkart", shard |-> second, of |-> 0]

NotPlanned ==
    [cpu_cap |-> 0, memory_cap |-> NoCap, derived_needed_for_target |-> 0,
     final_containers |-> 0, commands |-> <<>>]

PlInit ==
    /\ plan_pc = "idle"
    /\ plan_args = [total_links |-> 1, assumed_seconds_per_link |-> 1,
                    target_seconds |-> 0, containers |-> 0,
                    max_containers |-> 0, cpu_cores |-> 1,
                    cpu_utilization_halves |-> 2, total_memory_mb |-> 0,
                    memory_per_container_mb |-> 1, memory_overhead_mb |-> 0]
    /\ plan_obj = NotPlanned
    /\ unit_links = <<>>
    /\ unit_output = <<>>

\* The planner is run on an input file.
Plan ==
    /\ plan_pc = "idle"
    /\ plan_args' \in PlanArgs
    /\ plan_obj' = plan(plan_args')
    /\ plan_pc' = "planned"
    /\ UNCHANGED <<unit_links, unit_output, nonPlVars>>

\* The next command of the plan is run: a container starts the scraper.
RunContainer ==
    /\ plan_pc = "planned"
    /\ Len(unit_links) < Len(plan_obj.commands)
    /\ \E second \in 1..NumStartSeconds :
        LET command == plan_obj.commands[Len(unit_links) + 1]
        IN  /\ unit_links' = Append(unit_links, scraper_links(command))
            /\ unit_output' = Append(unit_output,
                                     scraper_output(command, second))
    /\ UNCHANGED <<plan_pc, plan_args, plan_obj, nonPlVars>>

\* The next input file.
NextPlan ==
    /\ plan_pc = "planned"
    /\ plan_pc' = "idle"
    /\ plan_args' = [total_links |-> 1, assumed_seconds_per_link |-> 1,
                     target_seconds |-> 0, containers |-> 0,
                     max_containers |-> 0, cpu_cores |-> 1,
                     cpu_utilization_halves |-> 2, total_memory_mb |-> 0,
                     memory_per_container_mb |-> 1, memory_overhead_mb |-> 0]
    /\ plan_obj' = NotPlanned
    /\ unit_links' = <<>>
    /\ unit_output' = <<>>
    /\ UNCHANGED nonPlVars

PlNext ==
    \/ Plan
    \/ RunContainer
    \/ NextPlan

\* ---------------------------------------------------------------------
\* url_mapper.URLMapper. Every platform file is the dataset as that
\* platform's scraper left it: the same entries, each with some store links
\* of the platform. An entry appended to final_data is written as the entry
\* it copies and the platform whose file it came from.
\* ---------------------------------------------------------------------
\* "for platform in ['amazon', 'flipkart', 'croma', 'jiomart']"
MergeOrder == <<"amazon", "flipkart", "croma", "jiomart">>

Entries == 1..NumEntries

\* load_platform_data returned None
NoFile == [e \in Entries |-> -1]

PlatformFiles == {NoFile} \cup [Entries -> 0..MaxStoreLinks]

\* find_platform_urls: one item for every store link of the platform, entry
\* by entry
RECURSIVE find_platform_urls(_, _, _)
find_platform_urls(data, platform, entry) ==
    IF entry > NumEntries THEN <<>>
    ELSE [i \in 1..data[entry] |-> [entry |-> entry, platform |-> platform]]
         \o find_platform_urls(data, platform, entry + 1)

\* merge_platform_data: "new_entry = entry.copy()" and
\* "self.final_data.append(new_entry)" for every URL found
merge_platform_data(data, platform, merged) ==
    merged \o find_platform_urls(data, platform, 1)

MgInit ==
    /\ merge_pc = 0
    /\ platform_files = [i \in 1..4 |-> NoFile]
    /\ final_data = <<>>
    /\ final_file = <<>>

\* The mapper is started on the platform files found on disk.
StartMapper ==
    /\ merge_pc = 0
    /\ platform_files' \in [1..4 -> PlatformFiles]
    /\ final_data' = <<>>
    /\ final_file' = <<>>
    /\ merge_pc' = 1
    /\ UNCHANGED nonMgVars

\* One round of the loop of process_all_platforms.
MergePlatform ==
    /\ merge_pc \in 1..4
    /\ final_data' =
        IF platform_files[merge_pc] = NoFile THEN final_data
        ELSE merge_platform_data(platform_files[merge_pc],
                                 MergeOrder[merge_pc], final_data)
    /\ merge_pc' = merge_pc + 1
    /\ UNCHANGED <<platform_files, final_file, nonMgVars>>

\* "json.dump(self.final_data, f, ...)" into the output file
SaveFinal ==
    /\ merge_pc = 5
    /\ final_file' = final_data
    /\ merge_pc' = 6
    /\ UNCHANGED <<platform_files, final_data, nonMgVars>>

\* The next mapping.
NextMapping ==
    /\ merge_pc = 6
    /\ merge_pc' = 0
    /\ platform_files' = [i \in 1..4 |-> NoFile]
    /\ final_data' = <<>>
    /\ final_file' = <<>>
    /\ UNCHANGED nonMgVars

MgNext ==
    \/ StartMapper
    \/ MergePlatform
    \/ SaveFinal
    \/ NextMapping

\* ---------------------------------------------------------------------
\* start_scraping / stop_scraping / run_scraper_process of the Amazon
\* service and mapper_run / _run_mapper_in_thread of the mapper. The flag is
\* read by the request handler and written by the run thread.
\* ---------------------------------------------------------------------
StartRequests == 1..MaxStartRequests

ActiveRuns == {t \in StartRequests : service_threads[t] \in {"spawned", "running"}}

SvInit ==
    /\ api_service = "none"
    /\ service_running = FALSE
    /\ service_threads = [t \in StartRequests |-> "none"]
    /\ rejected = 0

\* The service is started with "--api".
ServeApi ==
    /\ api_service = "none"
    /\ api_service' \in {"amazon", "mapper"}
    /\ UNCHANGED <<service_running, service_threads, rejected, nonSvVars>>

\* POST /start-scraping, POST /mapper/run: refused when the flag is set,
\* else a daemon thread is started and the answer is sent.
StartRequest(t) ==
    /\ api_service # "none"
    /\ service_threads[t] = "none"
    /\ \A u \in StartRequests : u < t => service_threads[u] # "none"
    /\ IF service_running
       THEN /\ rejected' = rejected + 1
            /\ service_threads' = [service_threads EXCEPT ![t] = "finished"]
       ELSE /\ service_threads' = [service_threads EXCEPT ![t] = "spawned"]
            /\ UNCHANGED rejected
    /\ UNCHANGED <<api_service, service_running, nonSvVars>>

\* run_scraper_process, _run_mapper_in_thread: the status is reset with the
\* flag set.
ThreadMarksRunning(t) ==
    /\ service_threads[t] = "spawned"
    /\ service_running' = TRUE
    /\ service_threads' = [service_threads EXCEPT ![t] = "running"]
    /\ UNCHANGED <<api_service, rejected, nonSvVars>>

\* The run returns or raises: the flag is cleared.
ThreadFinishes(t) ==
    /\ service_threads[t] = "running"
    /\ service_running' = FALSE
    /\ service_threads' = [service_threads EXCEPT ![t] = "finished"]
    /\ UNCHANGED <<api_service, rejected, nonSvVars>>

\* POST /stop-scraping: refused unless the flag is set, else the flag is
\* cleared; the run thread is not told.
StopRequest ==
    /\ api_service = "amazon"
    /\ service_running
    /\ service_running' = FALSE
    /\ UNCHANGED <<api_service, service_threads, rejected, nonSvVars>>

SvNext ==
    \/ ServeApi
    \/ \E t \in StartRequests : StartRequest(t)
    \/ \E t \in StartRequests : ThreadMarksRunning(t)
    \/ \E t \in StartRequests : ThreadFinishes(t)
    \/ StopRequest

\* ---------------------------------------------------------------------
\* process_croma_comprehensive (1253-1546): the link loop with its cache.
\* The data stored for a URL is one of
\*   "scraped"       in_stock and ranked_offers as read from the page,
\*   "discontinued"  in_stock False, discontinued True,
\*   "error"         in_stock False, ranked_offers [], exchange_price None,
\*                   written by the except branch.
\* ---------------------------------------------------------------------
CromaLinks == 1..NumCromaLinks

\* is_url_cached (68-70)
is_url_cached(u, c) == c[u] # "none"

\* add_to_cache (72-79)
add_to_cache(u, data, c) == [c EXCEPT ![u] = data]

\* "if (idx + 1) % 50 == 0: ... save_cache(cache)" (1497-1503)
croma_periodic_save(c) ==
    IF (croma_idx + 1) % CromaBackupEvery = 0 THEN c ELSE croma_cache_file

CmInit ==
    /\ croma_pc = "idle"
    /\ croma_runs = 0
    /\ croma_links = [l \in CromaLinks |-> 1]
    /\ croma_idx = 0
    /\ croma_cache = [u \in Urls |-> "none"]
    /\ croma_cache_file = [u \in Urls |-> "none"]
    /\ croma_visited_file = [u \in Urls |-> 0]
    /\ croma_store_link = [l \in CromaLinks |-> "none"]
    /\ croma_from_cache = [l \in CromaLinks |-> FALSE]
    /\ extraction_failed = {}

\* Lines 1253-1326: the input file is read, the cache is loaded from
\* croma_cache.json and the loop starts.
StartCroma ==
    /\ croma_pc = "idle"
    /\ croma_runs < MaxCromaRuns
    /\ croma_pc' = "loop"
    /\ croma_runs' = croma_runs + 1
    /\ croma_links' \in [CromaLinks -> Urls]
    /\ croma_idx' = 0
    /\ croma_cache' = croma_cache_file
    /\ croma_store_link' = [l \in CromaLinks |-> "none"]
    /\ croma_from_cache' = [l \in CromaLinks |-> FALSE]
    /\ UNCHANGED <<croma_cache_file, croma_visited_file, extraction_failed,
                   nonCmVars>>

\* Lines 1341-1355: "if is_url_cached(croma_url, cache):
\* store_link.update(cached_data); continue".
UseCached ==
    /\ croma_pc = "loop"
    /\ croma_idx < NumCromaLinks
    /\ LET l == croma_idx + 1
           u == croma_links[l]
       IN  /\ is_url_cached(u, croma_cache)
           /\ croma_store_link' = [croma_store_link EXCEPT ![l] = croma_cache[u]]
           /\ croma_from_cache' = [croma_from_cache EXCEPT ![l] = TRUE]
    /\ croma_idx' = croma_idx + 1
    /\ UNCHANGED <<croma_pc, croma_runs, croma_links, croma_cache,
                   croma_cache_file, croma_visited_file, extraction_failed,
                   nonCmVars>>

\* Lines 1365-1477: the page is fetched and read; the data is cached and
\* the URL appended to the visited file.
ScrapeCromaLink ==
    /\ croma_pc = "loop"
    /\ croma_idx < NumCromaLinks
    /\ LET l == croma_idx + 1
           u == croma_links[l]
       IN  /\ ~is_url_cached(u, croma_cache)
           /\ croma_store_link' = [croma_store_link EXCEPT ![l] = "scraped"]
           /\ croma_cache' = add_to_cache(u, "scraped", croma_cache)
           /\ croma_visited_file' = append_visited_url(croma_visited_file, u)
           /\ croma_cache_file' =
                  croma_periodic_save(add_to_cache(u, "scraped", croma_cache))
    /\ croma_idx' = croma_idx + 1
    /\ UNCHANGED <<croma_pc, croma_runs, croma_links, croma_from_cache,
                   extraction_failed, nonCmVars>>

\* Lines 1394-1408: a discontinued product is cached and the loop
\* continues; store_link and the visited file are left alone.
Discontinued ==
    /\ croma_pc = "loop"
    /\ croma_idx < NumCromaLinks
    /\ LET u == croma_links[croma_idx + 1]
       IN  /\ ~is_url_cached(u, croma_cache)
           /\ croma_cache' = add_to_cache(u, "discontinued", croma_cache)
    /\ croma_idx' = croma_idx + 1
    /\ UNCHANGED <<croma_pc, croma_runs, croma_links, croma_cache_file,
                   croma_visited_file, croma_store_link, croma_from_cache,
                   extraction_failed, nonCmVars>>

\* Lines 1479-1495: driver.get or a later step raised; "except Exception"
\* writes the error data into store_link, caches it and appends the URL to
\* the visited file.
ExtractionFails ==
    /\ croma_pc = "loop"
    /\ croma_idx < NumCromaLinks
    /\ LET l == croma_idx + 1
           u == croma_links[l]
       IN  /\ ~is_url_cached(u, croma_cache)
           /\ croma_store_link' = [croma_store_link EXCEPT ![l] = "error"]
           /\ croma_cache' = add_to_cache(u, "error", croma_cache)
           /\ croma_visited_file' = append_visited_url(croma_visited_file, u)
           /\ croma_cache_file' =
                  croma_periodic_save(add_to_cache(u, "error", croma_cache))
           /\ extraction_failed' = extraction_failed \cup {u}
    /\ croma_idx' = croma_idx + 1
    /\ UNCHANGED <<croma_pc, croma_runs, croma_links, croma_from_cache,
                   nonCmVars>>

\* Lines 1511-1520 (finally): save_cache and the final output; the loop
\* ended or KeyboardInterrupt left it.
FinishCroma ==
    /\ croma_pc = "loop"
    /\ croma_pc' = "idle"
    /\ croma_cache_file' = croma_cache
    /\ UNCHANGED <<croma_runs, croma_links, croma_idx, croma_cache,
                   croma_visited_file, croma_store_link, croma_from_cache,
                   extraction_failed, nonCmVars>>

CmNext ==
    \/ StartCroma
    \/ UseCached
    \/ ScrapeCromaLink
    \/ Discontinued
    \/ ExtractionFails
    \/ FinishCroma

Init == FkInit /\ AzInit /\ PxInit /\ FlInit /\ CkInit /\ RnInit /\ KyInit /\ SsInit /\ ScInit /\ RkInit /\ StInit /\ BkInit /\ PlInit /\ MgInit /\ SvInit /\ CmInit

SpecFlipkart == Init /\ [][FkNext]_vars

SpecAmazon == Init /\ [][AzNext]_vars

SpecProxy == Init /\ [][PxNext]_vars

SpecFlush == Init /\ [][FlNext]_vars

SpecCheckpoint == Init /\ [][CkNext]_vars

SpecRun == Init /\ [][RnNext]_vars

SpecKeys == Init /\ [][KyNext]_vars

SpecSessions == Init /\ [][SsNext]_vars

SpecScore == Init /\ [][ScNext]_vars

SpecCromaCache == Init /\ [][CmNext]_vars

SpecService == Init /\ [][SvNext]_vars

SpecMerge == Init /\ [][MgNext]_vars

SpecPlan == Init /\ [][PlNext]_vars

SpecBank == Init /\ [][BkNext]_vars

SpecStock == Init /\ [][StNext]_vars

SpecRank == Init /\ [][RkNext]_vars

\* Threads of one process: the main thread and every worker thread that can
\* take a step eventually takes it.
FairSpecFlipkart ==
    /\ SpecFlipkart
    /\ WF_vars(MainStep)
    /\ \A w \in Workers : WF_vars(WorkerStep(w))

HasResult(t) == \E i \in 1..Len(results) : results[i].url = t
Succeeded(t) == \E i \in 1..Len(results) :
                    results[i].url = t /\ results[i].error = "none"

(***************************************************************************)
(* Properties of the Flipkart session pool                                 *)
(***************************************************************************)
Holders(t) == {w \in Workers : link_data[w] = t}

\* C1: under fair scheduling every enqueued task eventually has a recorded
\* result, a success or an explicit failure, whatever session faults and
\* re-creation failures happen.
C1_EveryTaskEventuallyRecorded ==
    \A t \in Tasks : (enqueued >= t) ~> HasResult(t)

\* C2: a task whose execution raised a SessionFault is finished either by a
\* success after exactly one Session re-creation and one retry, or by a
\* final failure after MaxSessionRecoveries exhausted attempts.
C2_FaultGetsOneRecreationAndRetry ==
    \A t \in Tasks :
        (faulted[t] /\ acked[t]) =>
            \/ Succeeded(t) /\ recreations[t] = 1 /\ executions[t] = 2
            \/ ~Succeeded(t) /\ recreations[t] >= MaxSessionRecoveries

\* C7: every task is taken from the queue by exactly one worker, and no
\* other worker holds or executes it.
C7_TaskTakenByOneWorker ==
    \A t \in Tasks :
        /\ taken[t] <= 1
        /\ Cardinality(Holders(t)) <= 1
        /\ (Holders(t) # {} \/ executions[t] > 0 \/ acked[t]) => taken[t] = 1
        /\ executions[t] <= 1

\* Two workers are each about to execute a task they took from the queue.
C7_TwoWorkersHoldTasks ==
    \E w1, w2 \in Workers :
        /\ w1 # w2
        /\ wpc[w1] = "process" /\ wpc[w2] = "process"
        /\ link_data[w1] # None /\ link_data[w2] # None

\* C8: for every task the teardown-and-recreate cycles are bounded by
\* MaxSessionRecoveries.
C8_RecreationsBounded ==
    \A t \in Tasks : recreations[t] <= MaxSessionRecoveries


(***************************************************************************)
(* Properties of the Amazon loop                                           *)
(***************************************************************************)
\* The handler of the last failed link has run and the loop has not yet
\* started another link.
JustHandled == recovery.message # NoMessage /\ apc # "except"

Unclassified(message) ==
    LET info == error_types[message] IN
        /\ ~info.is_chrome_driver_error
        /\ ~info.is_http_connection_error
        /\ ~info.is_file_descriptor_error
        /\ ~info.is_session_error
        /\ ~info.is_max_retry_error

\* C3: when a URL that was processed before comes up again, the extractor
\* has run exactly once for it and the link receives the snapshot stored
\* for the URL.
C3_SecondOccurrenceGetsCachedSnapshot ==
    link_was_skipped =>
        /\ invocations[amazon_url] = 1
        /\ store_link # 0
        /\ store_link = url_cache[amazon_url]

\* C4: within a run the pause with checkpoint happens only after
\* PersistentErrorThreshold failures in a row, failures before the last
\* successfully completed link not counted.
C4_PauseOnlyAfterConsecutiveFailures ==
    (runs = 1 /\ run_end = "paused") =>
        consecutive_failures >= PersistentErrorThreshold

\* C5: a failure that matches no fault category escalates to the pause
\* with checkpoint.
C5_UnclassifiedFailureEscalates ==
    (JustHandled /\ Unclassified(recovery.message)) => run_end = "paused"

\* C6: after a failure that requires a driver restart and a successful
\* restart, the loop is at the same link again.
C6_RestartRetriesSameLink ==
    (JustHandled /\ recovery.action = "restart") => idx = recovery.idx

\* C9: a failure classified as a network fault, when it does not end the
\* run by the pause, is followed by a retry of the same link, with the next
\* proxy when one is available.
C9_NetworkFaultRotatesAndRetries ==
    (/\ JustHandled
     /\ error_types[recovery.message].is_http_connection_error
     /\ recovery.action # "pause")
        => recovery.retried

\* C10: a failure classified as resource exhaustion, when it does not end
\* the run by the pause, is followed by the cleanup routine, a wait and a
\* retry of the same link.
C10_ResourceExhaustionCleansAndRetries ==
    (/\ JustHandled
     /\ error_types[recovery.message].is_file_descriptor_error
     /\ recovery.action # "pause")
        => (recovery.cleaned /\ recovery.waited /\ recovery.retried)

(***************************************************************************)
(* Properties of the ProxyManager                                          *)
(***************************************************************************)
\* C11: a proxy is removed from the rotation only after
\* max_retries_per_proxy failures in a row; failures before its last
\* successful use do not count.
C11_EvictedOnlyAfterConsecutiveFailures ==
    \A p \in ProxyIds :
        evicted_after[p] # 0 => evicted_after[p] >= max_retries_per_proxy

(***************************************************************************)
(* Properties of the flush routines                                        *)
(***************************************************************************)
\* the files a reader opens: everything but the temporary file
ReadFiles == Files \ {"amazon_cache_tmp"}

\* C12: whenever the process is killed, every cache and checkpoint file on
\* disk is complete: none is partially written.
C12_CrashLeavesFilesComplete ==
    crashed => \A f \in ReadFiles : disk[f] # "partial"

(***************************************************************************)
(* Properties of the checkpoint schedule                                   *)
(***************************************************************************)
\* C13: whenever no worker is between completing a task and its checkpoint
\* test, at most Interval(service) tasks have completed since the last
\* checkpoint of the working dataset.
C13_CheckpointEveryInterval ==
    (ck_service # "none" /\ \A w \in Workers : ck_workers[w] = "idle")
        => ck_since <= Interval(ck_service)

\* ---------------------------------------------------------------------
\* C14. Once the operator's stop request has been accepted, the run starts
\* no further task: a worker that finishes its task in flight takes no
\* other task from the queue.
\* ---------------------------------------------------------------------
C14_NoTaskStartedAfterStop ==
    ~started_after_stop

\* ---------------------------------------------------------------------
\* C15. Every access to the shared state of the Flipkart service - the run
\* status, the visited log, the working dataset during a snapshot - is made
\* by a thread that holds the lock guarding that state.
\* ---------------------------------------------------------------------
C15_SharedStateAccessedUnderLock ==
    unguarded = {}

\* ---------------------------------------------------------------------
\* C16. When a run of the Amazon service has ended because of failures - an
\* exception left the loop, or the loop paused after persistent errors - the
\* status reports an error and does not report the run as completed, and
\* the cache on disk is the cache of the run.
\* ---------------------------------------------------------------------
C16_FailedRunReportsError ==
    run_end \in {"paused", "aborted"} =>
        /\ AmazonScrapingStatus.error # "None"
        /\ ~AmazonScrapingStatus.completed
        /\ cache_file = url_cache

\* ---------------------------------------------------------------------
\* C17. The visited log holds each URL at most once: a URL that is already
\* in the log is not written to it again, neither when it is served from
\* the cache nor in a later run.
\* ---------------------------------------------------------------------
C17_VisitedLogWriteOnce ==
    \A u \in Urls : visited_file[u] <= 1

\* ---------------------------------------------------------------------
\* C18. A URL that was recorded in the visited log or in the cache is found
\* by a later lookup of the same URL, also after the visited log and the
\* cache have been read again from disk: the key written is the key looked
\* up.
\* ---------------------------------------------------------------------
C18_RecordedUrlIsFound ==
    \A u \in key_recorded : KeyFound(u)

\* ---------------------------------------------------------------------
\* C19. No browser handle executes more than max_sessions (100) tasks: a
\* Session that has executed that many tasks on its handle creates a new
\* handle before the next task.
\* ---------------------------------------------------------------------
C19_HandleTasksBounded ==
    handle_tasks <= max_sessions

\* ---------------------------------------------------------------------
\* C20. For a Bank Offer, calculate_offer_score returns the value of the
\* five steps of the ranking rule: 80; plus min(a/p*100*2, 50) when p > 0
\* and a > 0; the minimum-spend adjustment; plus 5 when instant; clamped to
\* [0, 100]. The steps divide by p, and define a value when p > 0 or no
\* minimum spend is given. StepsScore is that value times p (times 1 when
\* p = 0).
\* ---------------------------------------------------------------------
StepsDefined(m, p) == p > 0 \/ m = NoMinSpend

StepsScore(a, m, p, instant) ==
    LET d == IF p > 0 THEN p ELSE 1
        step1 == 80 * d
        step2 == IF p > 0 /\ a > 0
                 THEN step1 + (IF 200 * a < 50 * p THEN 200 * a ELSE 50 * p)
                 ELSE step1
        floored(x) == IF x < 20 * p THEN 20 * p ELSE x
        step3 == IF m = NoMinSpend THEN step2 + 20 * d
                 ELSE IF m > p
                      THEN IF 100 * (m - p) > 50 * p
                           THEN 15 * p
                           ELSE floored(step2 - 50 * (m - p))
                      ELSE IF 10 * m <= 9 * p
                           THEN step2 + 10 * (p - m)
                           ELSE step2
        step4 == IF instant THEN step3 + 5 * d ELSE step3
    IN  IF step4 < 0 THEN 0 ELSE IF step4 > 100 * d THEN 100 * d ELSE step4

C20_ScoreIsTheValueOfTheSteps ==
    (/\ offer.type = "Bank Offer"
     /\ final_score # Pending
     /\ StepsDefined(offer.min_spend, product_price))
        => /\ final_score.raised = "None"
           /\ final_score.den = Den(product_price)
           /\ final_score.num = StepsScore(offer.amount, offer.min_spend,
                                           product_price, offer.is_instant)

\* C20, for every input: whatever the amount, the minimum spend, the price
\* and the instant flag of a Bank Offer, calculate_offer_score returns a
\* score, and the score is the value of the five steps.
C20_ScoreReturnedForEveryInput ==
    (offer.type = "Bank Offer" /\ final_score # Pending)
        => /\ final_score.raised = "None"
           /\ C20_ScoreIsTheValueOfTheSteps

\* amount 2000, price 20000, no minimum spend, instant: the score is 100
C20_ScenarioScores100 ==
    /\ offer = [type |-> "Bank Offer", amount |-> 2,
                min_spend |-> NoMinSpend, is_instant |-> TRUE]
    /\ product_price = 20
    /\ final_score = Returned(100 * 20, 20)

\* ---------------------------------------------------------------------
\* C21. In the list rank_offers returns, every offer that is not a Bank
\* Offer has no rank and no score, whatever the input list - also when the
\* list holds no Bank Offer.
\* ---------------------------------------------------------------------
C21_OtherOffersUnranked ==
    \A i \in 1..Len(ranked.items) :
        ranked.items[i].offer_type # "Bank Offer"
            => ranked.items[i].rank = NoRank /\ ranked.items[i].score = NoScore

\* The same, for the Amazon, Croma and JioMart analyzers only.
C21_OtherOffersUnrankedOffFlipkart ==
    rank_platform # "flipkart" => C21_OtherOffersUnranked

\* ---------------------------------------------------------------------
\* C22. The Bank Offers of the returned list stand in descending order of
\* score, Bank Offers of equal score stand in the order in which they were
\* found on the page, and their ranks are exactly 1..n, n being the number
\* of Bank Offers of the page.
\* ---------------------------------------------------------------------
RankedBankOffers == select_items(ranked.items, TRUE)

BankOffersOfPage == {i \in 1..Len(offers_data) : offers_data[i].type = "Bank Offer"}

C22_BankOffersRankedByScore ==
    ranked.raised = "None" =>
        /\ Len(RankedBankOffers) = Cardinality(BankOffersOfPage)
        /\ \A i \in 1..Len(RankedBankOffers) :
            /\ RankedBankOffers[i].rank = i
            /\ ranked.items[i] = RankedBankOffers[i]
            /\ \A j \in 1..Len(RankedBankOffers) :
                i < j =>
                    /\ RankedBankOffers[i].score >= RankedBankOffers[j].score
                    /\ RankedBankOffers[i].score = RankedBankOffers[j].score
                        => RankedBankOffers[i].description
                               < RankedBankOffers[j].description

\* two Bank Offers of equal score were ranked
C22_TieRanked ==
    /\ ranked.raised = "None"
    /\ Len(RankedBankOffers) = 2
    /\ RankedBankOffers[1].score = RankedBankOffers[2].score
    /\ RankedBankOffers[2].rank = 2

\* the offer found second was ranked first
C22_LaterOfferRankedFirst ==
    /\ ranked.raised = "None"
    /\ Len(RankedBankOffers) = 2
    /\ RankedBankOffers[1].description = 2
    /\ RankedBankOffers[1].score > RankedBankOffers[2].score

C23_MinSpendMetExactly ==
    \E i \in 1..Len(ranked.items) :
        /\ ranked.items[i].min_spend = rank_price
        /\ ranked.items[i].is_applicable
        /\ ranked.items[i].amount = 1

\* ---------------------------------------------------------------------
\* C24. Two calls of rank_offers on the same offers and the same price
\* return the same output: the result depends on nothing but its input,
\* neither on an earlier call nor on the answer of an external service.
\* ---------------------------------------------------------------------
C24_SameInputSameOutput ==
    rank_calls = 2 => ranked = ranked_before

\* The same, for the Flipkart, Croma and JioMart analyzers only.
C24_SameInputSameOutputOffAmazon ==
    rank_platform # "amazon" => C24_SameInputSameOutput

\* The two calls of the Amazon analyzer agree on everything but the bank
\* and the card type of the offers.
C24_AmazonDiffersInBankAndCardOnly ==
    rank_calls = 2 =>
        /\ ranked.raised = ranked_before.raised
        /\ Len(ranked.items) = Len(ranked_before.items)
        /\ \A i \in 1..Len(ranked.items) :
            [ranked.items[i] EXCEPT !.bank = "None", !.card_type = "None"]
                = [ranked_before.items[i] EXCEPT !.bank = "None",
                                                 !.card_type = "None"]

C26_UndeterminedRetriedTwice ==
    /\ Len(stock_attempts) <= 1 + 2
    /\ \A i \in 1..Len(stock_attempts) - 1 : stock_attempts[i].in_stock = "None"
    /\ stock_pc = "evaluated" /\ Len(stock_attempts) < 3
           /\ stock_attempts[Len(stock_attempts)].in_stock = "None"
        => store_in_stock = "unset"
    /\ stock_pc = "done" /\ ~stock_error =>
        /\ store_in_stock = stock_attempts[Len(stock_attempts)].in_stock
        /\ store_in_stock = "None" =>
            /\ Len(stock_attempts) = 3
            /\ \A i \in 1..3 : stock_attempts[i].in_stock = "None"

\* unknown was stored after three rounds
C26_UnknownAfterThreeRounds ==
    /\ stock_pc = "done"
    /\ store_in_stock = "None"
    /\ Len(stock_attempts) = 3

\* the second round found the state and the loop ended there
C26_StoppedAtSecondRound ==
    /\ stock_pc = "done"
    /\ store_in_stock = "True"
    /\ Len(stock_attempts) = 2

\* the page is loaded at most twice in each round
C26_PageLoadsBounded ==
    page_loads <= get_offers_max_retries * (1 + max_retries_for_undetermined)

\* ---------------------------------------------------------------------
\* C27. A task whose page lacks a field - price (parsed as 0), offers,
\* bank, minimum spend, in any combination - is never a failed task:
\* ranking returns and the task ends as a success.
\* ---------------------------------------------------------------------
C27_MissingFieldsNeverFail ==
    rank_calls > 0 => task_outcome(rank_platform, ranked) = "success"

\* The task fails only when the price is absent and a Bank Offer of the
\* page carries a minimum spend, and never on Croma.
C27_FailsOnlyWithoutPriceWithMinSpend ==
    rank_calls > 0 /\ task_outcome(rank_platform, ranked) # "success" =>
        /\ rank_price = 0
        /\ rank_platform # "croma"
        /\ \E i \in 1..Len(offers_data) :
            /\ offers_data[i].type = "Bank Offer"
            /\ offers_data[i].min_spend # NoMinSpend

\* A page without price, bank and minimum spend ends as a success.
C27_AbsentFieldsSucceed ==
    /\ rank_calls > 0
    /\ rank_price = 0
    /\ Len(offers_data) = 1
    /\ offers_data[1].type = "Bank Offer"
    /\ offers_data[1].bank = "None"
    /\ offers_data[1].min_spend = NoMinSpend
    /\ task_outcome(rank_platform, ranked) = "success"

\* ---------------------------------------------------------------------
\* C28. The longest pattern wins: when a description holds the full name
\* of a bank, and a shorter pattern of the tables lies inside that name
\* ("bank of india" inside "central bank of india", "au" inside "au small
\* finance bank"), the bank of the full name is the one returned.
\* ---------------------------------------------------------------------
BanksOf(platform) ==
    {PatternsTried(platform)[i].bank : i \in 1..Len(PatternsTried(platform))}

HasShorterPatternInside(platform, bank) ==
    \E i \in 1..Len(PatternsTried(platform)) :
        /\ Len(PatternsTried(platform)[i].pattern) < Len(CanonicalName(bank))
        /\ Contains(CanonicalName(bank), PatternsTried(platform)[i].pattern)

C28_LongerNameReturned ==
    extracted_bank # "not called" =>
        \A bank \in BanksOf(bank_platform) :
            /\ Contains(bank_description, CanonicalName(bank))
            /\ HasShorterPatternInside(bank_platform, bank)
            => extracted_bank = bank

\* The same, but for the full name "central bank of india".
C28_LongerNameReturnedButCentral ==
    ~Contains(bank_description, <<"central", "bank", "of", "india">>)
        => C28_LongerNameReturned

\* "au small finance bank" is read as AU Small Finance Bank by the Amazon
\* analyzer, and "union bank of india" as Union Bank of India
C28_AUSmallFinanceBankFound ==
    /\ bank_platform = "amazon"
    /\ bank_description = <<"au", "small", "finance", "bank">>
    /\ extracted_bank = "AU Small Finance Bank"

C28_CentralReadAsBankOfIndia ==
    /\ bank_description = <<"central", "bank", "of", "india">>
    /\ extracted_bank = "Bank of India"

\* ---------------------------------------------------------------------
\* C29. The planner's number of containers is ceil(total links * seconds
\* per link / target seconds), capped by the CPU cap, the memory cap and
\* the explicit maximum: it never exceeds any of the three.
\* ---------------------------------------------------------------------
C29_CountWithinEveryCap ==
    plan_pc = "planned" =>
        /\ plan_obj.final_containers <= plan_obj.cpu_cap
        /\ plan_obj.memory_cap # NoCap
            => plan_obj.final_containers <= plan_obj.memory_cap
        /\ plan_args.max_containers # 0
            => plan_obj.final_containers <= plan_args.max_containers

\* The same, unless the memory cap is 0.
C29_CountWithinEveryCapButZeroMemory ==
    plan_obj.memory_cap # 0 => C29_CountWithinEveryCap

\* Without a forced count, and with a target, the count is the quotient
\* rounded up, capped by the caps that are not 0.
C29_CountIsCappedQuotient ==
    plan_pc = "planned" /\ plan_args.containers = 0
        /\ plan_args.target_seconds # 0 /\ plan_obj.memory_cap # 0 =>
        LET needed == (plan_args.total_links
                          * plan_args.assumed_seconds_per_link
                          + plan_args.target_seconds - 1)
                      \div plan_args.target_seconds
            caps == {plan_obj.cpu_cap}
                    \cup (IF plan_obj.memory_cap # NoCap
                          THEN {plan_obj.memory_cap} ELSE {})
                    \cup (IF plan_args.max_containers # 0
                          THEN {plan_args.max_containers} ELSE {})
        IN  /\ plan_obj.final_containers <= needed
            /\ \A c \in caps : plan_obj.final_containers <= c
            /\ plan_obj.final_containers = needed
                \/ plan_obj.final_containers \in caps

\* two containers are planned on a host whose usable memory holds none
C29_TwoContainersWithoutMemory ==
    /\ plan_pc = "planned"
    /\ plan_obj.memory_cap = 0
    /\ plan_obj.final_containers = 2

\* ---------------------------------------------------------------------
\* C30. The containers of one plan get disjoint sets of links and write
\* each its own output file: no link is processed by two of them and no
\* two of them write the same file.
\* ---------------------------------------------------------------------
C30_UnitsDisjoint ==
    \A u, v \in 1..Len(unit_links) :
        u # v =>
            /\ unit_links[u] \cap unit_links[v] = {}
            /\ unit_output[u] # unit_output[v]

\* The output files named in the commands of a plan differ, as do the
\* shard indices.
C30_PlannedOutputsDiffer ==
    \A u, v \in 1..Len(plan_obj.commands) :
        u # v =>
            /\ plan_obj.commands[u].output_file # plan_obj.commands[v].output_file
            /\ plan_obj.commands[u].shard_index # plan_obj.commands[v].shard_index

\* both containers of a plan processed the same link and wrote a file of
\* the same name
C30_SameLinkAndFileTwice ==
    /\ Len(unit_links) = 2
    /\ 1 \in unit_links[1] \cap unit_links[2]
    /\ unit_output[1] = unit_output[2]

\* ---------------------------------------------------------------------
\* C31. Merging the platform outputs fabricates no record: the merged
\* dataset holds exactly one record for every entry of the master dataset,
\* and a platform's record only augments the entry with the matching URL.
\* ---------------------------------------------------------------------
RecordsOf(entry) == {i \in 1..Len(final_file) : final_file[i].entry = entry}

C31_OneRecordPerEntry ==
    merge_pc = 6 => \A entry \in Entries : Cardinality(RecordsOf(entry)) = 1

\* Every record of the merged dataset is a copy of an entry of a platform
\* file, one for each store link of that platform in it.
C31_OneRecordPerStoreLink ==
    merge_pc = 6 =>
        \A entry \in Entries : \A p \in 1..4 :
            Cardinality({i \in RecordsOf(entry) :
                             final_file[i].platform = MergeOrder[p]})
                = (IF platform_files[p] = NoFile THEN 0
                   ELSE platform_files[p][entry])

\* an entry with one Amazon and one Flipkart link stands twice in final.json
C31_EntryTwiceInFinal ==
    /\ merge_pc = 6
    /\ platform_files[1] # NoFile /\ platform_files[1][1] = 1
    /\ platform_files[2] # NoFile /\ platform_files[2][1] = 1
    /\ Cardinality(RecordsOf(1)) >= 2

\* ---------------------------------------------------------------------
\* C32. A service has at most one active run: a start request is refused
\* as long as a run started before has not finished, also when it follows
\* another start request at once or follows a stop request.
\* ---------------------------------------------------------------------
C32_AtMostOneActiveRun == Cardinality(ActiveRuns) <= 1

\* two start requests were accepted before either thread set the flag
C32_TwoRunsBackToBack ==
    /\ service_threads[1] = "spawned"
    /\ service_threads[2] = "spawned"

\* after a stop request the flag is cleared while the first run is still
\* running, and a second run has been started beside it
C32_SecondRunAfterStop ==
    /\ api_service = "amazon"
    /\ service_threads[1] = "running"
    /\ ~service_running
    /\ service_threads[2] = "spawned"
    /\ service_threads[3] = "none"
    /\ rejected = 0

\* a start request was refused while a run was active
C32_StartRefused ==
    /\ rejected = 1
    /\ service_threads[1] = "running"

\* ---------------------------------------------------------------------
\* C33. A URL whose extraction failed is not stored in the result cache or
\* the visited log as a completed result: neither the cache in memory nor
\* the cache file holds the error data, and no link is served the error
\* data from the cache.
\* ---------------------------------------------------------------------
C33_FailureNeverStored ==
    /\ \A u \in Urls : croma_cache[u] # "error" /\ croma_cache_file[u] # "error"
    /\ \A l \in CromaLinks :
           croma_from_cache[l] => croma_store_link[l] # "error"

\* what the loop does hold to: the error data is stored for the URLs whose
\* extraction raised and for no other
C33_ErrorDataOnlyAfterFailure ==
    \A u \in Urls :
        (croma_cache[u] = "error" \/ croma_cache_file[u] = "error")
            => u \in extraction_failed /\ croma_visited_file[u] > 0

\* the second run serves a link the error data the first run cached
C33_FailureServedFromCache ==
    /\ croma_runs = 2
    /\ croma_from_cache[1]
    /\ croma_store_link[1] = "error"
    /\ croma_links[1] \in extraction_failed
    /\ croma_cache_file[croma_links[1]] = "error"
    /\ croma_visited_file[croma_links[1]] = 1

\* ---------------------------------------------------------------------
\* C34. When the Flipkart pool has shut down, quit() was called on every
\* browser handle created during the run: the handles of the initial pool
\* and every replacement a worker created after a session fault.
\* ---------------------------------------------------------------------
C34_EveryHandleQuit ==
    mpc = "done" =>
        \A w \in drivers : handle[w] \in {"initial_quit", "replacement_quit"}

\* what the shutdown does hold to: the handles in the list drivers, which
\* are the initial ones, were all quit
C34_InitialHandlesQuit ==
    mpc = "done" => \A w \in Workers : handle[w] # "initial"

\* the pool has shut down, every worker has left its loop, and a worker
\* still holds a replacement that was never quit
C34_ReplacementLeftOpen ==
    /\ mpc = "done"
    /\ \A w \in drivers : wpc[w] = "exit"
    /\ \E w \in drivers : handle[w] = "replacement"

\* ---------------------------------------------------------------------
\* C35. The four analyzers compute the same score: for every Bank Offer of
\* the page, taken with the same fields on every platform, and the price
\* of the call, calculate_offer_score of any two analyzers agree.
\* ---------------------------------------------------------------------
C35_SameScoreOnEveryPlatform ==
    rank_calls > 0 =>
        \A i \in 1..Len(offers_data) :
            offers_data[i].type = "Bank Offer" =>
                \A a, b \in Platforms :
                    platform_score(a, offers_data[i], rank_price)
                        = platform_score(b, offers_data[i], rank_price)

\* a Bank Offer without amount, minimum spend, bank and card type, at a
\* price of 1: 100 on Amazon, 95 on Flipkart and JioMart, 80 on Croma
C35_ThreeScoresForOneOffer ==
    /\ rank_calls > 0
    /\ rank_price = 1
    /\ Len(offers_data) = 1
    /\ offers_data[1] = [type |-> "Bank Offer", amount |-> 0,
                         min_spend |-> NoMinSpend, bank |-> "None",
                         card_type |-> "None", is_instant |-> FALSE]
    /\ platform_score("amazon", offers_data[1], rank_price).num = 100
    /\ platform_score("flipkart", offers_data[1], rank_price).num = 95
    /\ platform_score("jiomart", offers_data[1], rank_price).num = 95
    /\ platform_score("croma", offers_data[1], rank_price).num = 80

\* ---------------------------------------------------------------------
\* C36. In the list rank_offers returns, no Bank Offer that is not
\* applicable is ranked above a Bank Offer that is applicable.
\* ---------------------------------------------------------------------
C36_ApplicableRankedFirst ==
    ranked.raised = "None" =>
        \A i, j \in 1..Len(RankedBankOffers) :
            i < j => ~(/\ ~RankedBankOffers[i].is_applicable
                       /\ RankedBankOffers[j].is_applicable)

\* what the Amazon analyzer does hold to: an offer whose minimum spend is
\* more than one and a half times the price is ranked below every offer
\* that is applicable
C36_FarMinSpendRankedLast ==
    (rank_platform = "amazon" /\ ranked.raised = "None") =>
        \A i, j \in 1..Len(RankedBankOffers) :
            i < j => ~(/\ ~RankedBankOffers[i].is_applicable
                       /\ 2 * RankedBankOffers[i].min_spend > 3 * rank_price
                       /\ RankedBankOffers[j].is_applicable)

\* the Amazon analyzer ranks an offer that is not applicable first, with
\* the score 100, and an applicable offer of a lower score second
C36_InapplicableRankedFirst ==
    /\ rank_platform = "amazon"
    /\ ranked.raised = "None"
    /\ Len(RankedBankOffers) = 2
    /\ ~RankedBankOffers[1].is_applicable
    /\ RankedBankOffers[1].score = 100 * Den(rank_price)
    /\ RankedBankOffers[2].is_applicable
    /\ RankedBankOffers[2].score < RankedBankOffers[1].score

\* ---------------------------------------------------------------------
\* C37. The failure count that triggers the pause with checkpoint belongs
\* to one run: whenever a run is started in the process, the count is zero
\* when its loop begins.
\* ---------------------------------------------------------------------
C37_RunBeginsAtZero ==
    [][(runs' = runs + 1) => persistent_error_count' = 0]_vars

\* The same, for the first run of the process only.
C37_FirstRunBeginsAtZero ==
    [][(runs = 0 /\ runs' = 1) => persistent_error_count' = 0]_vars

\* the second run pauses at the first failure of its first link: the
\* count the first run left behind was at the threshold already
C37_SecondRunPausesAtFirstFailure ==
    /\ runs = 2
    /\ run_end = "paused"
    /\ idx = 0
    /\ consecutive_failures = 1
    /\ persistent_error_count = PersistentErrorThreshold + 1

\* ---------------------------------------------------------------------
\* C38. In the Flipkart pool task_queue.join() has returned, and the final
\* output is written, only when every task put on the queue was taken once
\* and acknowledged and no worker holds a task any more; task_done is
\* pending for exactly the items that are queued or held by a worker; and
\* a worker has left its loop for every stop sentinel taken off the queue,
\* one each.
\* ---------------------------------------------------------------------
SentinelsQueued ==
    Cardinality({i \in 1..Len(task_queue) : task_queue[i] = None})

C38_JoinOnlyAfterEveryTaskDone ==
    /\ mpc \in {"stop", "cleanup", "done"} =>
           /\ enqueued = NumTasks
           /\ \A t \in Tasks : taken[t] = 1 /\ acked[t]
           /\ \A w \in Workers : link_data[w] = None
    /\ unfinished_tasks
           = Len(task_queue) + Cardinality({w \in Workers : link_data[w] # None})
    /\ Cardinality({w \in Workers : wpc[w] = "exit"})
           = sentinels - SentinelsQueued
    /\ \A w \in Workers : wpc[w] = "exit" => w \in drivers /\ mpc # "join"

\* the pool of two workers has shut down after both tasks were handled,
\* one of them with a session fault, and both workers took their sentinel
C38_PoolDoneAfterFault ==
    /\ mpc = "done"
    /\ drivers = Workers
    /\ \A w \in Workers : wpc[w] = "exit"
    /\ \E t \in Tasks : faulted[t]
    /\ \A t \in Tasks : acked[t]
    /\ task_queue = <<>>
    /\ unfinished_tasks = 0

\* ---------------------------------------------------------------------
\* C39. get_next_proxy returns None only when the rotation is empty or
\* every proxy of the rotation was tested in that call; a proxy it returns
\* is one of the rotation; and it leaves current_proxy_index a valid index
\* of self.proxies (0 when the list is empty).
\* ---------------------------------------------------------------------
ProxiesOf(ps) == {ps[i] : i \in 1..Len(ps)}

C39_IndexValid ==
    IF proxies = <<>> THEN current_proxy_index = 0
    ELSE current_proxy_index \in 0..(Len(proxies) - 1)

C39_ReturnedProxyWasTested ==
    (proxy_calls > 0 /\ returned_proxy # None) =>
        /\ returned_proxy \in ProxiesOf(rotation_at_call)
        /\ returned_proxy \in ProxiesOf(proxies)
        /\ returned_proxy \in tested_in_call

C39_NoneOnlyAfterEveryProxyFailed ==
    /\ C39_IndexValid
    /\ C39_ReturnedProxyWasTested
    /\ (proxy_calls > 0 /\ returned_proxy = None) =>
           ProxiesOf(rotation_at_call) \subseteq tested_in_call

\* The same, for a rotation of at most two proxies.
C39_NoneOnlyAfterEveryProxyFailedOfTwo ==
    Len(rotation_at_call) <= 2 => C39_NoneOnlyAfterEveryProxyFailed

\* the first call on a fresh list of three proxies returned None: the
\* first two failed three tests each and were removed, the third was never
\* tested and is still in the rotation
C39_NoneWithUntestedProxy ==
    /\ proxy_calls = 1
    /\ returned_proxy = None
    /\ rotation_at_call = <<1, 2, 3>>
    /\ tested_in_call = {1, 2}
    /\ proxies = <<3>>
    /\ proxy_retry_counts[3] = 0

====
